---- MODULE Spec2Model ----
(***************************************************************************)
(* The bounded MPMC ring of ZeroQ (src/src/mpmc_queue.rs): a header with   *)
(* two cursors, one sequence word per slot and a flat data region, used by *)
(* producer threads calling enqueue and consumer threads calling dequeue.  *)
(* Every access to the shared region is one step of the model.             *)
(***************************************************************************)
EXTENDS Integers, Naturals, Sequences, FiniteSets, TLC

\* ------------------------------------------------------------- bounds
CapacityLog2 == 1
ElemSize == 2
MaxCalls == 6
SeqOps == 4
SpscOps == 4
RoundTripOps == 1
MaxByte == 1
MaxStart == 5
WordBits == 6
RegionSlack == 1
MaxCapacity == 4
MaxAddr == 8
AttachCalls == 5
FacadeCalls == 2
MaxTime == 2
MaxTimeout == 1
MaxAttempts == 2
LiveCalls == 3
LenCalls == 5
ProgressCalls == 4
SoloCalls == 3
WrapBack == 2
WrapOps == 3
SizeBits == 8
JoinCalls == 3
LockCalls == 3
TwinOps == 4

Capacity == 2 ^ CapacityLog2
Word == 2 ^ WordBits

Producers == {"p1", "p2"}
Consumers == {"c1", "c2"}
Threads == Producers \cup Consumers

\* An unwritten byte of the data region (init_on_buffer never writes the data).
Uninit == -1

VARIABLES
  element_size,   \* header.element_size
  buffer_mask,    \* header.buffer_mask
  enqueue_pos,    \* header.enqueue_pos
  dequeue_pos,    \* header.dequeue_pos
  sequence,       \* cells[i].sequence
  data,           \* the data region, byte by byte
  pc,             \* where each thread is inside enqueue / dequeue
  pos,            \* the local `pos` of the reservation loop
  src,            \* the `src` slice of a running enqueue
  dst,            \* the `dst` slice of a dequeue
  result,         \* what the thread's last call returned
  ops,            \* calls made by each thread
  enqLog,         \* history: <<pos, val>> of each enqueue, in order of return
  deqLog,         \* history: <<pos, val>> of each dequeue, in order of return
  init_call,      \* a call of init_on_buffer: its arguments and what it returned
  segment,        \* the named shared-memory segment: whether it exists, its length
  queues,         \* what Queue::new returned to each process
  facade,         \* each thread's call of a Queue method: arguments, locals, outcome
  now,            \* the monotonic clock read by Instant::now and elapsed
  closed,         \* Queue.closed
  len_query,      \* a call of __len__ / full (lib.rs): its two loads and its result
  solo,           \* the thread that runs while all others are suspended, if any
  construction,   \* how far the creator's Queue::new has got
  lib_new,        \* a call of Queue::new of lib.rs: its inputs and the pointers it computed
  gil,            \* the thread holding the interpreter lock, if any (lib.rs)
  named_lock,     \* the thread holding the queue's NamedLock, if any (lib.rs)
  lib_pc,         \* where each thread is inside put / put_nowait / get / get_nowait (lib.rs)
  twin            \* a ring operated through try_put / try_get of lib.rs

\* The state of the named-lock queue of lib.rs.
lib == <<lib_new, gil, named_lock, lib_pc, twin>>

vars == <<element_size, buffer_mask, enqueue_pos, dequeue_pos, sequence, data,
          pc, pos, src, dst, result, ops, enqLog, deqLog, init_call, segment, queues,
          facade, now, closed, len_query, solo, construction, lib>>

\* The state of the Queue methods around the core.
methods == <<facade, now, closed>>

\* What the operations of the ring core never touch.
ext == <<init_call, segment, queues, methods, len_query, solo, construction, lib>>

Procs == {"creator", "joiner"}

shared == <<element_size, buffer_mask, enqueue_pos, dequeue_pos, sequence, data>>

\* ------------------------------------------------------- word arithmetic
\* usize addition (wrapping at the word size).
WrapAdd(a, b) == (a + b) % Word

\* `x as isize`
AsSigned(x) == IF x >= Word \div 2 THEN x - Word ELSE x

\* isize subtraction, wrapped to the signed range.
SignedSub(a, b) == ((a - b + Word \div 2) % Word) - Word \div 2

\* isize addition, wrapped to the signed range.
SignedAdd(a, b) == ((a + b + Word \div 2) % Word) - Word \div 2

\* `pos & buffer_mask`
cell_index(p) == p % (buffer_mask + 1)

\* ------------------------------------------------------------ results
Res(k, e, a) == [kind |-> k, expected |-> e, actual |-> a]
NoResult == Res("none", 0, 0)
Ok == Res("Ok", 0, 0)
QueueFull == Res("QueueFull", 0, 0)
QueueEmpty == Res("QueueEmpty", 0, 0)
InvalidSourceLength(e, a) == Res("InvalidSourceLength", e, a)
InvalidDestinationLength(e, a) == Res("InvalidDestinationLength", e, a)

BufferTooSmall(r, p) == Res("BufferTooSmall", r, p)
BufferSizeNotPowerOfTwo(a) == Res("BufferSizeNotPowerOfTwo", 0, a)
BufferMisaligned(e, a) == Res("BufferMisaligned", e, a)

\* ------------------------------------------------------------- layout
\* size_of::<usize>() on a 64-bit target; size and alignment of Cell too.
UsizeBytes == 8

\* size_of::<MpmcQueueHeader>(): four usize fields, repr(C).
HeaderSize == 4 * UsizeBytes

\* align_of::<MpmcQueueHeader>()
HeaderAlign == UsizeBytes

\* Byte counts are usize too; they are counted in a word of SizeBits bits, wide
\* enough for the header and the cells of the largest ring tried.
SizeWord == 2 ^ SizeBits

\* usize `+` and `*` in a build without overflow checks.
usize_add(a, b) == (a + b) % SizeWord
usize_mul(a, b) == (a * b) % SizeWord

\* (offset + align - 1) & !(align - 1), align a power of two.
align_up(offset, align) == (usize_add(offset, align - 1) \div align) * align

\* usize::is_power_of_two
is_power_of_two(n) == \E k \in 0..n : n = 2 ^ k

\* compute_required_size: header, cells, then capacity * element_size data bytes.
compute_required_size(es, capacity) ==
  LET cells_offset == align_up(HeaderSize, UsizeBytes)
      cells_size == usize_mul(capacity, UsizeBytes)
      data_offset == align_up(usize_add(cells_offset, cells_size), 1)
      data_size == usize_mul(capacity, es)
  IN  usize_add(data_offset, data_size)

\* The layout validate_and_compute_layout computes for itself.
layout(es, buffer_size) ==
  LET header_size == HeaderSize
      cells_offset == align_up(header_size, UsizeBytes)
      cells_size == usize_mul(buffer_size, UsizeBytes)
      data_offset == align_up(usize_add(cells_offset, cells_size), 1)
      data_size == usize_mul(buffer_size, es)
  IN  [header_size |-> header_size, cells_offset |-> cells_offset,
       data_offset |-> data_offset, required_size |-> usize_add(data_offset, data_size)]

\* cells_ptr: the offset of Cells[0] from the base.
cells_offset == align_up(HeaderSize, UsizeBytes)

\* data_ptr: the offset of the data region, from the header's buffer_mask.
data_offset ==
  LET buffer_size == usize_add(buffer_mask, 1)
      cells_size == usize_mul(buffer_size, UsizeBytes)
  IN  align_up(usize_add(cells_offset, cells_size), 1)

\* write_slot / read_slot: data_ptr().add(index * element_size), the address of
\* the first byte of slot index.
slot_offset(index) == data_offset + usize_mul(index, element_size)

\* The longest region tried: more than the largest ring asked for needs.
MaxRegion == compute_required_size(ElemSize, MaxCapacity) + RegionSlack

\* A validation that looks at the region length before the power of two.
validate_and_compute_layout_len_first(len, es, buffer_size) ==
  IF buffer_size < 2 THEN BufferTooSmall(2, buffer_size)
  ELSE IF len < compute_required_size(es, buffer_size)
  THEN BufferTooSmall(compute_required_size(es, buffer_size), len)
  ELSE IF ~is_power_of_two(buffer_size) THEN BufferSizeNotPowerOfTwo(buffer_size)
  ELSE Ok

\* validate_and_compute_layout: Ok, or the first failing check's error.
validate_and_compute_layout(len, es, buffer_size) ==
  IF buffer_size < 2 THEN BufferTooSmall(2, buffer_size)
  ELSE IF ~is_power_of_two(buffer_size) THEN BufferSizeNotPowerOfTwo(buffer_size)
  ELSE IF len < layout(es, buffer_size).required_size
  THEN BufferTooSmall(layout(es, buffer_size).required_size, len)
  ELSE Ok

\* What init_on_buffer returns for a region of len bytes at address addr.
init_on_buffer(len, addr, es, buffer_size) ==
  LET v == validate_and_compute_layout(len, es, buffer_size)
  IN  IF v # Ok THEN v
      ELSE IF addr % HeaderAlign # 0 THEN BufferMisaligned(HeaderAlign, addr % HeaderAlign)
      ELSE Ok

\* ------------------------------------------------------------ the ring
\* The region as init_on_buffer(.., new = true) leaves it.
InitRing ==
  /\ element_size = ElemSize
  /\ buffer_mask = Capacity - 1
  /\ enqueue_pos = 0
  /\ dequeue_pos = 0
  /\ sequence = [i \in 0..(Capacity - 1) |-> i]
  /\ data = [j \in 0..(Capacity * ElemSize - 1) |-> Uninit]

\* No Queue::new(create = true) is under way.
NoConstruction == [step |-> "none", es |-> 0, cap |-> 0, field |-> 0, i |-> 0]

\* No Queue::new of lib.rs has run.
NoLibQueue ==
  [kind |-> "none", base |-> 0, capacity |-> 0, element_size |-> 0, total_size |-> 0,
   header |-> 0, buffer |-> 0, buffer_end |-> 0, sequences |-> 0]

\* The ring Queue::new of lib.rs (create = true) leaves: cursors 0,
\* sequences[i] = i, the data bytes of the fresh segment.
FreshTwin ==
  [capacity |-> Capacity, element_size |-> ElemSize, mask |-> Capacity - 1,
   enqueue_position |-> 0, dequeue_position |-> 0,
   sequences |-> [i \in 0..(Capacity - 1) |-> i],
   buffer |-> [j \in 0..(Capacity * ElemSize - 1) |-> 0],
   op |-> "none", outcome |-> "none", bytes |-> <<>>]

InitLib ==
  /\ lib_new = NoLibQueue
  /\ gil = "none"
  /\ named_lock = "none"
  /\ lib_pc = [t \in Threads |-> [at |-> "idle", wait |-> FALSE]]
  /\ twin = FreshTwin

InitThreads ==
  /\ pc = [t \in Threads |-> "idle"]
  /\ pos = [t \in Threads |-> 0]
  /\ src = [t \in Threads |-> <<>>]
  /\ dst = [t \in Threads |-> <<>>]
  /\ result = [t \in Threads |-> NoResult]
  /\ ops = [t \in Threads |-> 0]
  /\ enqLog = <<>>
  /\ deqLog = <<>>
  /\ solo = "none"
  /\ construction = NoConstruction
  /\ InitLib

\* No call of init_on_buffer is being followed.
NoInitCall ==
  [len |-> 0, addr |-> 0, element_size |-> 0, buffer_size |-> 0, new |-> FALSE,
   result |-> NoResult]

NoSegment == [exists |-> FALSE, len |-> 0]

\* A process that has not called Queue::new.
NoQueue == [kind |-> "none", error |-> NoResult, element_size |-> 0, capacity |-> 0]

\* Option<f64>: the timeout of put and get, in clock ticks.
Some(t) == [some |-> TRUE, t |-> t]
None == [some |-> FALSE, t |-> 0]

\* A thread that has not called a Queue method.
NoCall ==
  [op |-> "none", wait |-> FALSE, pc |-> "idle", item |-> <<>>, timeout |-> None,
   start |-> 0, attempts |-> 0, slept |-> FALSE, result |-> "none", oks |-> 0]

\* No length query made yet.
NoLenQuery == [pc |-> "idle", head |-> 0, tail |-> 0, len |-> 0, full |-> FALSE, was_empty |-> TRUE]

InitMethods ==
  /\ facade = [t \in Threads |-> NoCall]
  /\ now = 0
  /\ closed = FALSE
  /\ len_query = NoLenQuery

InitExt ==
  /\ init_call = NoInitCall
  /\ segment = NoSegment
  /\ queues = [p \in Procs |-> NoQueue]
  /\ InitMethods

Init == InitRing /\ InitThreads /\ InitExt

\* A length check that rejects only slices that are too short.
validate_enqueue_src_short_only(len) ==
  IF len < element_size THEN InvalidSourceLength(element_size, len) ELSE Ok

\* validate_enqueue_src: Ok, or the length error.
validate_enqueue_src(len) ==
  IF len # element_size THEN InvalidSourceLength(element_size, len) ELSE Ok

\* validate_dequeue_dst: Ok, or the length error.
validate_dequeue_dst(len) ==
  IF len # element_size THEN InvalidDestinationLength(element_size, len) ELSE Ok

\* A reservation that takes a slot still holding an element for free.
enqueue_dif_no_full(seq, p) ==
  LET d == SignedSub(AsSigned(seq), AsSigned(p)) IN IF d < 0 THEN 0 ELSE d

\* `seq as isize - pos as isize`
enqueue_dif(seq, p) == SignedSub(AsSigned(seq), AsSigned(p))

\* A consumer that compares the sequence with pos instead of pos + 1.
dequeue_dif_no_plus_one(seq, p) == SignedSub(AsSigned(seq), AsSigned(p))

\* `seq as isize - (pos as isize + 1)`
dequeue_dif(seq, p) == SignedSub(AsSigned(seq), SignedAdd(AsSigned(p), 1))

\* A publishing store that leaves the sequence at pos.
write_slot_sequence_no_plus_one(p) == p

\* The sequence value write_slot stores.
write_slot_sequence(p) == WrapAdd(p, 1)

\* A releasing store of pos + buffer_mask.
read_slot_sequence_no_plus_one(p) == WrapAdd(p, buffer_mask)

\* The sequence value read_slot stores.
read_slot_sequence(p) == WrapAdd(WrapAdd(p, buffer_mask), 1)

\* A copy into the slot after the one claimed.
write_slot_data_next_slot(p, s) ==
  LET base == cell_index(p + 1) * element_size
  IN  [j \in DOMAIN data |->
         IF j >= base /\ j < base + element_size THEN s[j - base + 1] ELSE data[j]]

\* The data region after write_slot's copy of element_size bytes of s.
write_slot_data(p, s) ==
  LET base == cell_index(p) * element_size
  IN  [j \in DOMAIN data |->
         IF j >= base /\ j < base + element_size THEN s[j - base + 1] ELSE data[j]]

\* A copy that takes the slot index for the byte offset.
read_slot_data_no_stride(p) ==
  LET base == cell_index(p)
  IN  [i \in 1..element_size |-> data[base + i - 1]]

\* The destination after read_slot's copy of element_size bytes.
read_slot_data(p) ==
  LET base == cell_index(p) * element_size
  IN  [i \in 1..element_size |-> data[base + i - 1]]

\* ------------------------------------------------------------ enqueue
\* enqueue: the length check; a wrong length returns before any reservation.
EnqueueCall(t, b) ==
  /\ pc[t] = "idle"
  /\ ops' = [ops EXCEPT ![t] = @ + 1]
  /\ dst' = [dst EXCEPT ![t] = <<>>]
  /\ LET v == validate_enqueue_src(Len(b))
     IN  IF v # Ok
         THEN /\ result' = [result EXCEPT ![t] = v]
              /\ UNCHANGED pc
         ELSE /\ result' = [result EXCEPT ![t] = NoResult]
              /\ pc' = [pc EXCEPT ![t] = "load_pos"]
  /\ src' = [src EXCEPT ![t] = b]
  /\ UNCHANGED <<shared, pos, enqLog, deqLog>>

\* try_reserve_enqueue_slot: pos = enqueue_pos.load (before the loop, and on dif > 0).
EnqLoadPos(t) ==
  /\ UNCHANGED ext
  /\ t \in Producers
  /\ pc[t] = "load_pos"
  /\ pos' = [pos EXCEPT ![t] = enqueue_pos]
  /\ pc' = [pc EXCEPT ![t] = "load_seq"]
  /\ UNCHANGED <<shared, src, dst, result, ops, enqLog, deqLog>>

\* A reservation that advances the cursor before it finds the ring full.
EnqLoadSeq_claim_first(t) ==
  /\ UNCHANGED ext
  /\ t \in Producers
  /\ pc[t] = "load_seq"
  /\ LET dif == enqueue_dif(sequence[cell_index(pos[t])], pos[t])
     IN  IF dif = 0
         THEN /\ pc' = [pc EXCEPT ![t] = "cas"]
              /\ UNCHANGED <<pos, src, result, enqueue_pos>>
         ELSE IF dif < 0
         THEN /\ pc' = [pc EXCEPT ![t] = "idle"]
              /\ result' = [result EXCEPT ![t] = QueueFull]
              /\ pos' = [pos EXCEPT ![t] = 0]
              /\ src' = [src EXCEPT ![t] = <<>>]
              /\ enqueue_pos' = WrapAdd(enqueue_pos, 1)
         ELSE /\ pc' = [pc EXCEPT ![t] = "load_pos"]
              /\ UNCHANGED <<pos, src, result, enqueue_pos>>
  /\ UNCHANGED <<element_size, buffer_mask, dequeue_pos, sequence, data,
                 dst, ops, enqLog, deqLog>>

\* try_reserve_enqueue_slot: seq = cell.sequence.load, and the branch on dif.
EnqLoadSeq(t) ==
  /\ UNCHANGED ext
  /\ t \in Producers
  /\ pc[t] = "load_seq"
  /\ LET dif == enqueue_dif(sequence[cell_index(pos[t])], pos[t])
     IN  IF dif = 0
         THEN /\ pc' = [pc EXCEPT ![t] = "cas"]
              /\ UNCHANGED <<pos, src, result>>
         ELSE IF dif < 0
         THEN /\ pc' = [pc EXCEPT ![t] = "idle"]
              /\ result' = [result EXCEPT ![t] = QueueFull]
              /\ pos' = [pos EXCEPT ![t] = 0]
              /\ src' = [src EXCEPT ![t] = <<>>]
         ELSE /\ pc' = [pc EXCEPT ![t] = "load_pos"]
              /\ UNCHANGED <<pos, src, result>>
  /\ UNCHANGED <<shared, dst, ops, enqLog, deqLog>>

\* A plain store in place of the compare-and-swap.
EnqCasOk_store(t) ==
  /\ UNCHANGED ext
  /\ t \in Producers
  /\ pc[t] = "cas"
  /\ enqueue_pos' = WrapAdd(pos[t], 1)
  /\ pc' = [pc EXCEPT ![t] = "copy"]
  /\ UNCHANGED <<element_size, buffer_mask, dequeue_pos, sequence, data,
                 pos, src, dst, result, ops, enqLog, deqLog>>

\* compare_exchange_weak(pos, pos + 1) on enqueue_pos succeeds.
EnqCasOk(t) ==
  /\ UNCHANGED ext
  /\ t \in Producers
  /\ pc[t] = "cas"
  /\ enqueue_pos = pos[t]
  /\ enqueue_pos' = WrapAdd(pos[t], 1)
  /\ pc' = [pc EXCEPT ![t] = "copy"]
  /\ UNCHANGED <<element_size, buffer_mask, dequeue_pos, sequence, data,
                 pos, src, dst, result, ops, enqLog, deqLog>>

\* compare_exchange_weak fails (the cursor moved, or spuriously): pos = new_pos.
EnqCasFail(t) ==
  /\ UNCHANGED ext
  /\ t \in Producers
  /\ pc[t] = "cas"
  /\ pos' = [pos EXCEPT ![t] = enqueue_pos]
  /\ pc' = [pc EXCEPT ![t] = "load_seq"]
  /\ UNCHANGED <<shared, src, dst, result, ops, enqLog, deqLog>>

\* write_slot: the copy of src into the slot.
WriteSlotCopy(t) ==
  /\ UNCHANGED ext
  /\ t \in Producers
  /\ pc[t] = "copy"
  /\ data' = write_slot_data(pos[t], src[t])
  /\ pc' = [pc EXCEPT ![t] = "publish"]
  /\ UNCHANGED <<element_size, buffer_mask, enqueue_pos, dequeue_pos, sequence,
                 pos, src, dst, result, ops, enqLog, deqLog>>

\* write_slot: sequence.store(pos + 1), and enqueue returns Ok.
WriteSlotPublish(t) ==
  /\ UNCHANGED ext
  /\ t \in Producers
  /\ pc[t] = "publish"
  /\ sequence' = [sequence EXCEPT ![cell_index(pos[t])] = write_slot_sequence(pos[t])]
  /\ enqLog' = Append(enqLog, <<pos[t], src[t]>>)
  /\ pc' = [pc EXCEPT ![t] = "idle"]
  /\ result' = [result EXCEPT ![t] = Ok]
  /\ pos' = [pos EXCEPT ![t] = 0]
  /\ src' = [src EXCEPT ![t] = <<>>]
  /\ UNCHANGED <<element_size, buffer_mask, enqueue_pos, dequeue_pos, data,
                 dst, ops, deqLog>>

\* ------------------------------------------------------------ dequeue
\* dequeue: the length check on a destination of n bytes.
DequeueCall(t, n) ==
  /\ pc[t] = "idle"
  /\ ops' = [ops EXCEPT ![t] = @ + 1]
  /\ dst' = [dst EXCEPT ![t] = [i \in 1..n |-> 0]]
  /\ LET v == validate_dequeue_dst(n)
     IN  IF v # Ok
         THEN /\ result' = [result EXCEPT ![t] = v]
              /\ UNCHANGED pc
         ELSE /\ result' = [result EXCEPT ![t] = NoResult]
              /\ pc' = [pc EXCEPT ![t] = "load_pos"]
  /\ UNCHANGED <<shared, pos, src, enqLog, deqLog>>

\* try_reserve_dequeue_slot: pos = dequeue_pos.load (before the loop, and on dif > 0).
DeqLoadPos(t) ==
  /\ UNCHANGED ext
  /\ t \in Consumers
  /\ pc[t] = "load_pos"
  /\ pos' = [pos EXCEPT ![t] = dequeue_pos]
  /\ pc' = [pc EXCEPT ![t] = "load_seq"]
  /\ UNCHANGED <<shared, src, dst, result, ops, enqLog, deqLog>>

\* A reservation that polls the empty ring instead of returning None.
DeqLoadSeq_wait_when_empty(t) ==
  /\ UNCHANGED ext
  /\ t \in Consumers
  /\ pc[t] = "load_seq"
  /\ LET dif == dequeue_dif(sequence[cell_index(pos[t])], pos[t])
     IN  IF dif = 0
         THEN pc' = [pc EXCEPT ![t] = "cas"]
         ELSE pc' = [pc EXCEPT ![t] = "load_pos"]
  /\ UNCHANGED <<shared, pos, result, src, dst, ops, enqLog, deqLog>>

\* try_reserve_dequeue_slot: seq = cell.sequence.load, and the branch on dif.
DeqLoadSeq(t) ==
  /\ UNCHANGED ext
  /\ t \in Consumers
  /\ pc[t] = "load_seq"
  /\ LET dif == dequeue_dif(sequence[cell_index(pos[t])], pos[t])
     IN  IF dif = 0
         THEN /\ pc' = [pc EXCEPT ![t] = "cas"]
              /\ UNCHANGED <<pos, result>>
         ELSE IF dif < 0
         THEN /\ pc' = [pc EXCEPT ![t] = "idle"]
              /\ result' = [result EXCEPT ![t] = QueueEmpty]
              /\ pos' = [pos EXCEPT ![t] = 0]
         ELSE /\ pc' = [pc EXCEPT ![t] = "load_pos"]
              /\ UNCHANGED <<pos, result>>
  /\ UNCHANGED <<shared, src, dst, ops, enqLog, deqLog>>

\* compare_exchange_weak(pos, pos + 1) on dequeue_pos succeeds.
DeqCasOk(t) ==
  /\ UNCHANGED ext
  /\ t \in Consumers
  /\ pc[t] = "cas"
  /\ dequeue_pos = pos[t]
  /\ dequeue_pos' = WrapAdd(pos[t], 1)
  /\ pc' = [pc EXCEPT ![t] = "copy"]
  /\ UNCHANGED <<element_size, buffer_mask, enqueue_pos, sequence, data,
                 pos, src, dst, result, ops, enqLog, deqLog>>

\* compare_exchange_weak fails (the cursor moved, or spuriously): pos = new_pos.
DeqCasFail(t) ==
  /\ UNCHANGED ext
  /\ t \in Consumers
  /\ pc[t] = "cas"
  /\ pos' = [pos EXCEPT ![t] = dequeue_pos]
  /\ pc' = [pc EXCEPT ![t] = "load_seq"]
  /\ UNCHANGED <<shared, src, dst, result, ops, enqLog, deqLog>>

\* read_slot: the copy of the slot into dst.
ReadSlotCopy(t) ==
  /\ UNCHANGED ext
  /\ t \in Consumers
  /\ pc[t] = "copy"
  /\ dst' = [dst EXCEPT ![t] = read_slot_data(pos[t])]
  /\ pc' = [pc EXCEPT ![t] = "publish"]
  /\ UNCHANGED <<shared, pos, src, result, ops, enqLog, deqLog>>

\* read_slot: sequence.store(pos + buffer_mask + 1), and dequeue returns Ok.
ReadSlotPublish(t) ==
  /\ UNCHANGED ext
  /\ t \in Consumers
  /\ pc[t] = "publish"
  /\ sequence' = [sequence EXCEPT ![cell_index(pos[t])] = read_slot_sequence(pos[t])]
  /\ deqLog' = Append(deqLog, <<pos[t], dst[t]>>)
  /\ pc' = [pc EXCEPT ![t] = "idle"]
  /\ result' = [result EXCEPT ![t] = Ok]
  /\ pos' = [pos EXCEPT ![t] = 0]
  /\ UNCHANGED <<element_size, buffer_mask, enqueue_pos, dequeue_pos, data,
                 src, dst, ops, enqLog>>

\* ------------------------------------------------------------- inputs
ProducerNo(t) == IF t = "p1" THEN 1 ELSE 2

\* The k-th element of producer t: distinct over producers and calls.
Payload(t, k) == [i \in 1..ElemSize |-> IF i = 1 THEN ProducerNo(t) ELSE IF i = 2 THEN k ELSE 0]

\* What a producer may pass: its next element, or a slice one byte short or long.
Sources(t) ==
  LET b == Payload(t, ops[t] + 1)
  IN  {b, SubSeq(b, 1, ElemSize - 1), Append(b, 0)}

DstLengths == {ElemSize - 1, ElemSize, ElemSize + 1}

ProducerStep(t) ==
  \/ EnqLoadPos(t)
  \/ EnqLoadSeq(t)
  \/ EnqCasOk(t)
  \/ EnqCasFail(t)
  \/ WriteSlotCopy(t)
  \/ WriteSlotPublish(t)

ConsumerStep(t) ==
  \/ DeqLoadPos(t)
  \/ DeqLoadSeq(t)
  \/ DeqCasOk(t)
  \/ DeqCasFail(t)
  \/ ReadSlotCopy(t)
  \/ ReadSlotPublish(t)

TotalCalls == ops["p1"] + ops["p2"] + ops["c1"] + ops["c2"]

\* Under Spec a thread passes a slice of the wrong length on its first call only.
FirstSources(t) == IF ops[t] = 0 THEN Sources(t) ELSE {Payload(t, ops[t] + 1)}
FirstDstLengths(t) == IF ops[t] = 0 THEN DstLengths ELSE {ElemSize}

\* Producers and consumers running concurrently, MaxCalls calls in all.
Next ==
  \/ \E t \in Producers : \E b \in FirstSources(t) : TotalCalls < MaxCalls /\ EnqueueCall(t, b) /\ UNCHANGED ext
  \/ \E t \in Producers : ProducerStep(t)
  \/ \E t \in Consumers : \E n \in FirstDstLengths(t) : TotalCalls < MaxCalls /\ DequeueCall(t, n) /\ UNCHANGED ext
  \/ \E t \in Consumers : ConsumerStep(t)

Spec == Init /\ [][Next]_vars

\* ------------------------------------- one producer and one consumer
SpscNext ==
  \/ \E b \in Sources("p1") : ops["p1"] < SpscOps /\ EnqueueCall("p1", b) /\ UNCHANGED ext
  \/ ProducerStep("p1")
  \/ \E n \in DstLengths : ops["c1"] < SpscOps /\ DequeueCall("c1", n) /\ UNCHANGED ext
  \/ ConsumerStep("c1")

SpecSpsc == Init /\ [][SpscNext]_vars

\* --------------------------------------------- one operation at a time
\* The ring after c enqueues and c dequeues, nothing running: slot i waits for
\* the least position >= c that maps to it; the slots used so far hold old bytes.
QuiescentRing(c) ==
  /\ element_size = ElemSize
  /\ buffer_mask = Capacity - 1
  /\ enqueue_pos = c
  /\ dequeue_pos = c
  /\ sequence = [i \in 0..(Capacity - 1) |-> (c + ((i - c) % Capacity)) % Word]
  /\ data = [j \in 0..(Capacity * ElemSize - 1) |->
               IF c > j \div ElemSize THEN 0 ELSE Uninit]

InitSeq == (\E c \in 0..MaxStart : QuiescentRing(c)) /\ InitThreads /\ InitExt

AllIdle == \A t \in Threads : pc[t] = "idle"

\* Calls start only when no call is running.
SeqNext ==
  \/ \E b \in Sources("p1") : AllIdle /\ ops["p1"] < SeqOps /\ EnqueueCall("p1", b) /\ UNCHANGED ext
  \/ ProducerStep("p1")
  \/ \E n \in DstLengths : AllIdle /\ ops["c1"] < SeqOps /\ DequeueCall("c1", n) /\ UNCHANGED ext
  \/ ConsumerStep("c1")

SpecSeq == InitSeq /\ [][SeqNext]_vars

\* ------------------------------- a lone enqueue and a lone dequeue, any bytes
Bytes == 0..MaxByte

\* Every slice of element_size bytes, and slices one byte short and long.
AnySources ==
  UNION {[1..n -> Bytes] : n \in {ElemSize - 1, ElemSize, ElemSize + 1}}

RoundTripNext ==
  \/ \E b \in AnySources : AllIdle /\ ops["p1"] < RoundTripOps /\ EnqueueCall("p1", b) /\ UNCHANGED ext
  \/ ProducerStep("p1")
  \/ \E n \in DstLengths : AllIdle /\ ops["c1"] < RoundTripOps /\ DequeueCall("c1", n) /\ UNCHANGED ext
  \/ ConsumerStep("c1")

SpecRoundTrip == InitSeq /\ [][RoundTripNext]_vars

\* ------------------------------------------------- initialising a region
locals == <<pc, pos, src, dst, result, ops, enqLog, deqLog>>

\* A region nothing has been written to.
RawRegion ==
  /\ element_size = Uninit
  /\ buffer_mask = Uninit
  /\ enqueue_pos = Uninit
  /\ dequeue_pos = Uninit
  /\ sequence = [i \in {} |-> Uninit]
  /\ data = [j \in {} |-> Uninit]

\* Any call of init_on_buffer: new = true on a raw region, new = false on a
\* region that holds a ring.
InitCalls ==
  /\ init_call \in [len : 0..MaxRegion, addr : 0..MaxAddr, element_size : 0..ElemSize,
                    buffer_size : 0..MaxCapacity, new : BOOLEAN, result : {NoResult}]
  /\ IF init_call.new THEN RawRegion ELSE QuiescentRing(0)
  /\ InitThreads
  /\ segment = NoSegment
  /\ queues = [p \in Procs |-> NoQueue]
  /\ InitMethods

\* An init_cells that starts every slot sequence at 0.
init_header_and_cells_zero_sequences(es, buffer_size) ==
  /\ element_size' = es
  /\ buffer_mask' = buffer_size - 1
  /\ enqueue_pos' = 0
  /\ dequeue_pos' = 0
  /\ sequence' = [i \in 0..(buffer_size - 1) |-> 0]
  /\ data' = [j \in 0..(buffer_size * es - 1) |-> Uninit]

\* init_header and init_cells: the header fields and sequence[i] = i; the data
\* bytes stay unwritten.
init_header_and_cells(es, buffer_size) ==
  /\ element_size' = es
  /\ buffer_mask' = buffer_size - 1
  /\ enqueue_pos' = 0
  /\ dequeue_pos' = 0
  /\ sequence' = [i \in 0..(buffer_size - 1) |-> i]
  /\ data' = [j \in 0..(buffer_size * es - 1) |-> Uninit]

\* init_on_buffer: the checks, then, for new = true, init_header and init_cells.
InitOnBuffer ==
  /\ init_call.result = NoResult
  /\ LET c == init_call
         r == init_on_buffer(c.len, c.addr, c.element_size, c.buffer_size)
     IN  /\ init_call' = [init_call EXCEPT !.result = r]
         /\ IF r = Ok /\ c.new
            THEN init_header_and_cells(c.element_size, c.buffer_size)
            ELSE UNCHANGED shared
  /\ UNCHANGED <<locals, segment, queues, methods, len_query, solo, construction, lib>>

SpecInit == InitCalls /\ [][InitOnBuffer]_vars

\* ------------------------------------------------------- Queue::new
\* From<MpmcQueueError> for PyErr: the exception a core error is raised as.
PyErr(e) ==
  IF e.kind \in {"QueueFull", "QueueEmpty"} THEN e.kind ELSE "InvalidParameters"

\* The Queue object a successful Queue::new returns, and a raised exception.
Queue(es, cap) == [kind |-> "Queue", error |-> Ok, element_size |-> es, capacity |-> cap]
Raised(exc, e) == [kind |-> exc, error |-> e, element_size |-> 0, capacity |-> 0]

\* A capacity read from the header without the + 1.
header_capacity_no_plus_one == buffer_mask

\* `header.buffer_mask + 1`, the capacity a joiner reads.
header_capacity == buffer_mask + 1

\* Queue::new(name, es, cap, create = true): a segment of required_size bytes is
\* created (a segment of no bytes cannot be) and initialised; on an error of
\* init_on_buffer the segment, owned by the failed call, is dropped again.
CreateQueue(p, es, cap) ==
  /\ queues[p].kind = "none"
  /\ IF segment.exists
     THEN /\ queues' = [queues EXCEPT ![p] = Raised("FailedCreateSharedMemory", NoResult)]
          /\ UNCHANGED <<segment, shared>>
     ELSE LET required_size == compute_required_size(es, cap)
              r == init_on_buffer(required_size, 0, es, cap)
          IN  IF required_size = 0
              THEN /\ queues' = [queues EXCEPT ![p] = Raised("FailedCreateSharedMemory", NoResult)]
                   /\ UNCHANGED <<segment, shared>>
              ELSE IF r = Ok
              THEN /\ segment' = [exists |-> TRUE, len |-> required_size]
                   /\ init_header_and_cells(es, cap)
                   /\ queues' = [queues EXCEPT ![p] = Queue(es, cap)]
              ELSE /\ queues' = [queues EXCEPT ![p] = Raised(PyErr(r), r)]
                   /\ UNCHANGED <<segment, shared>>
  /\ UNCHANGED <<locals, init_call, methods, len_query, solo, construction, lib>>

\* Queue::new(name, create = false): element_size and capacity are read from the
\* header of the opened segment and checked against the segment's length.
AttachQueue(p) ==
  /\ queues[p].kind = "none"
  /\ IF ~segment.exists
     THEN queues' = [queues EXCEPT ![p] = Raised("FailedOpenSharedMemory", NoResult)]
     ELSE LET elem_size == element_size
              cap == header_capacity
              r == init_on_buffer(segment.len, 0, elem_size, cap)
          IN  IF r = Ok
              THEN queues' = [queues EXCEPT ![p] = Queue(elem_size, cap)]
              ELSE queues' = [queues EXCEPT ![p] = Raised(PyErr(r), r)]
  /\ UNCHANGED <<shared, segment, locals, init_call, methods, len_query, solo, construction, lib>>

\* ------------------------------------------ a creator and a later joiner
\* p1 and c1 are threads of the creating process, c2 of the joining one.
Proc(t) == IF t = "c2" THEN "joiner" ELSE "creator"

\* The next item of thread t: element_size bytes.
Item(t) ==
  [i \in 1..element_size |-> IF i = 1 THEN ProducerNo(t) ELSE IF i = 2 THEN ops[t] + 1 ELSE 0]

InitAttach ==
  /\ RawRegion
  /\ InitThreads
  /\ InitExt

\* put_nowait and get_nowait on an open queue; get_nowait passes a buffer of
\* header.element_size bytes.
AttachNext ==
  \/ \E es \in 0..ElemSize : \E cap \in 0..MaxCapacity : CreateQueue("creator", es, cap)
  \/ AttachQueue("joiner")
  \/ /\ queues["creator"].kind = "Queue"
     /\ TotalCalls < AttachCalls
     /\ EnqueueCall("p1", Item("p1"))
     /\ UNCHANGED ext
  \/ ProducerStep("p1")
  \/ \E t \in Consumers :
       /\ queues[Proc(t)].kind = "Queue"
       /\ TotalCalls < AttachCalls
       /\ DequeueCall(t, element_size)
       /\ UNCHANGED ext
  \/ \E t \in Consumers : ConsumerStep(t)

SpecAttach == InitAttach /\ [][AttachNext]_vars

\* ------------------------------------- construction racing with an attach
\* Queue::new takes no lock, so the stores of the creator's init_on_buffer
\* interleave with a joiner's Queue::new and with the joiner's operations.
\* The fields of the header are stored in the order of the struct literal.

\* A segment as ShmemConf::create maps it: every byte zero.
ZeroRegion(es, cap) ==
  /\ element_size' = 0
  /\ buffer_mask' = 0
  /\ enqueue_pos' = 0
  /\ dequeue_pos' = 0
  /\ sequence' = [i \in 0..(cap - 1) |-> 0]
  /\ data' = [j \in 0..(cap * es - 1) |-> 0]

\* Queue::new(create = true) up to the checks of init_on_buffer: the segment is
\* created; after a failed check it is dropped again.
ConstructCreate(es, cap) ==
  /\ construction.step = "none"
  /\ queues["creator"].kind = "none"
  /\ ~segment.exists
  /\ LET required_size == compute_required_size(es, cap)
         r == init_on_buffer(required_size, 0, es, cap)
     IN  IF required_size = 0
         THEN /\ queues' = [queues EXCEPT !["creator"] = Raised("FailedCreateSharedMemory", NoResult)]
              /\ construction' = [construction EXCEPT !.step = "failed"]
              /\ UNCHANGED <<segment, shared>>
         ELSE IF r = Ok
         THEN /\ segment' = [exists |-> TRUE, len |-> required_size]
              /\ ZeroRegion(es, cap)
              /\ construction' = [step |-> "header", es |-> es, cap |-> cap, field |-> 0, i |-> 0]
              /\ UNCHANGED queues
         ELSE /\ queues' = [queues EXCEPT !["creator"] = Raised(PyErr(r), r)]
              /\ construction' = [construction EXCEPT !.step = "failed"]
              /\ UNCHANGED <<segment, shared>>
  /\ UNCHANGED <<locals, init_call, methods, len_query, solo, lib>>

\* init_header: the next field of the header is stored.
ConstructHeader ==
  /\ construction.step = "header"
  /\ element_size' = IF construction.field = 0 THEN construction.es ELSE element_size
  /\ buffer_mask' = IF construction.field = 1 THEN construction.cap - 1 ELSE buffer_mask
  /\ enqueue_pos' = IF construction.field = 2 THEN 0 ELSE enqueue_pos
  /\ dequeue_pos' = IF construction.field = 3 THEN 0 ELSE dequeue_pos
  /\ construction' = IF construction.field = 3
                     THEN [construction EXCEPT !.step = "cells"]
                     ELSE [construction EXCEPT !.field = @ + 1]
  /\ UNCHANGED <<sequence, data, locals, init_call, segment, queues, methods, len_query, solo, lib>>

\* init_cells: one turn of `for i in 0..buffer_size`.
ConstructCell ==
  /\ construction.step = "cells"
  /\ construction.i < construction.cap
  /\ sequence' = [sequence EXCEPT ![construction.i] = construction.i]
  /\ construction' = [construction EXCEPT !.i = @ + 1]
  /\ UNCHANGED <<element_size, buffer_mask, enqueue_pos, dequeue_pos, data,
                 locals, init_call, segment, queues, methods, len_query, solo, lib>>

\* init_on_buffer and Queue::new return the creator's Queue.
ConstructReturn ==
  /\ construction.step = "cells"
  /\ construction.i = construction.cap
  /\ construction' = [construction EXCEPT !.step = "done"]
  /\ queues' = [queues EXCEPT !["creator"] = Queue(construction.es, construction.cap)]
  /\ UNCHANGED <<shared, locals, init_call, segment, methods, len_query, solo, lib>>

\* The joining process attaches at any moment; its thread p2 enqueues and its
\* thread c2 dequeues.
JoinNext ==
  \/ \E es \in 0..ElemSize : \E cap \in 0..MaxCapacity : ConstructCreate(es, cap)
  \/ ConstructHeader
  \/ ConstructCell
  \/ ConstructReturn
  \/ AttachQueue("joiner")
  \/ /\ queues["joiner"].kind = "Queue"
     /\ TotalCalls < JoinCalls
     /\ EnqueueCall("p2", Item("p2"))
     /\ UNCHANGED ext
  \/ ProducerStep("p2")
  \/ /\ queues["joiner"].kind = "Queue"
     /\ TotalCalls < JoinCalls
     /\ DequeueCall("c2", element_size)
     /\ UNCHANGED ext
  \/ ConsumerStep("c2")

SpecJoin == InitAttach /\ [][JoinNext]_vars

\* ------------------------------------------------ rings of every slot size
\* Element sizes up to a quarter of the size word.
LayoutElemSizes == 0..(SizeWord \div 4)

\* A creator's Queue::new with any element size and capacity, and a joiner.
LayoutNext ==
  \/ \E es \in LayoutElemSizes : \E cap \in 0..MaxCapacity : CreateQueue("creator", es, cap)
  \/ AttachQueue("joiner")

SpecLayout == InitAttach /\ [][LayoutNext]_vars

\* ----------------------------------------- attaching to a foreign segment
\* A segment this program did not create: any length, any header.
InitOpen ==
  /\ segment \in [exists : {TRUE}, len : 0..MaxRegion]
  /\ element_size \in 0..ElemSize
  /\ buffer_mask \in 0..MaxCapacity
  /\ enqueue_pos = 0
  /\ dequeue_pos = 0
  /\ sequence = [i \in 0..buffer_mask |-> i]
  /\ data = [j \in 0..((buffer_mask + 1) * element_size - 1) |-> Uninit]
  /\ InitThreads
  /\ init_call = NoInitCall
  /\ queues = [p \in Procs |-> NoQueue]
  /\ InitMethods

SpecOpen == InitOpen /\ [][AttachQueue("joiner")]_vars

\* ----------------------------------------------- put, get and the getters
Min(a, b) == IF a <= b THEN a ELSE b

\* check_active: Err(QueueClosed) when the closed flag is set.
check_active == IF closed THEN "QueueClosed" ELSE "Ok"

\* A wait loop that goes round again on every error.
retries_any_error(op, e) == e # Ok

\* The match arm that sleeps and retries: QueueFull in put, QueueEmpty in get.
retries(op, e) == IF op = "put" THEN e = QueueFull ELSE e = QueueEmpty

\* A deadline test that fires as soon as a timeout is set.
timed_out_at_once(timeout, start) == timeout.some

\* `if let Some(t) = timeout { if start.elapsed() > t`
timed_out(timeout, start) == timeout.some /\ now - start > timeout.t

\* A call that has returned r: its arguments and locals are gone.
Returned(f, r, n) ==
  [NoCall EXCEPT !.op = f.op, !.slept = f.slept, !.result = r, !.oks = n]

\* The entry of a method: check_active, and for put / get `start = Instant::now()`.
Enter(t, op, wait, item, timeout) ==
  /\ facade[t].pc = "idle"
  /\ pc[t] = "idle"
  /\ ops' = [ops EXCEPT ![t] = @ + 1]
  /\ facade' = [facade EXCEPT ![t] =
       IF check_active # "Ok"
       THEN [NoCall EXCEPT !.op = op, !.result = check_active, !.oks = facade[t].oks]
       ELSE [op |-> op, wait |-> wait, item |-> item, timeout |-> timeout,
             pc |-> "attempt", start |-> now, attempts |-> 0, slept |-> FALSE,
             result |-> "none", oks |-> facade[t].oks]]
  /\ UNCHANGED <<shared, pc, pos, src, dst, result, enqLog, deqLog>>
  /\ UNCHANGED <<init_call, segment, queues, now, closed, len_query, solo, construction, lib>>

\* put(item, timeout) with wait, put_nowait(item) without.
Put(t, item, timeout, wait) == Enter(t, "put", wait, item, timeout)

\* get(timeout) with wait, get_nowait() without.
Get(t, timeout, wait) == Enter(t, "get", wait, <<>>, timeout)

\* The element_size and maxsize getters: check_active, then a read of the header.
Getter(t) ==
  /\ facade[t].pc = "idle"
  /\ pc[t] = "idle"
  /\ ops' = [ops EXCEPT ![t] = @ + 1]
  /\ facade' = [facade EXCEPT ![t] =
       [NoCall EXCEPT !.op = "getter", !.result = check_active, !.oks = facade[t].oks]]
  /\ UNCHANGED <<shared, pc, pos, src, dst, result, enqLog, deqLog>>
  /\ UNCHANGED <<init_call, segment, queues, now, closed, len_query, solo, construction, lib>>

\* `self.queue.enqueue(item)` in put and put_nowait: the length check of enqueue.
PutAttempt(t) ==
  /\ facade[t].pc = "attempt"
  /\ facade[t].op = "put"
  /\ facade' = [facade EXCEPT ![t].pc = "core",
                              ![t].attempts = Min(@ + 1, MaxAttempts)]
  /\ LET v == validate_enqueue_src(Len(facade[t].item))
     IN  IF v # Ok
         THEN /\ result' = [result EXCEPT ![t] = v]
              /\ UNCHANGED <<pc, src>>
         ELSE /\ result' = [result EXCEPT ![t] = NoResult]
              /\ pc' = [pc EXCEPT ![t] = "load_pos"]
              /\ src' = [src EXCEPT ![t] = facade[t].item]
  /\ UNCHANGED <<shared, pos, dst, ops, enqLog, deqLog>>
  /\ UNCHANGED <<init_call, segment, queues, now, closed, len_query, solo, construction, lib>>

\* `self.queue.dequeue(&mut buf)` in get and get_nowait, buf of
\* header.element_size zero bytes.
GetAttempt(t) ==
  /\ facade[t].pc = "attempt"
  /\ facade[t].op = "get"
  /\ facade' = [facade EXCEPT ![t].pc = "core",
                              ![t].attempts = Min(@ + 1, MaxAttempts)]
  /\ dst' = [dst EXCEPT ![t] = [i \in 1..element_size |-> 0]]
  /\ LET v == validate_dequeue_dst(element_size)
     IN  IF v # Ok
         THEN /\ result' = [result EXCEPT ![t] = v]
              /\ UNCHANGED pc
         ELSE /\ result' = [result EXCEPT ![t] = NoResult]
              /\ pc' = [pc EXCEPT ![t] = "load_pos"]
  /\ UNCHANGED <<shared, pos, src, ops, enqLog, deqLog>>
  /\ UNCHANGED <<init_call, segment, queues, now, closed, len_query, solo, construction, lib>>

\* The match on what the core returned: Ok returns; the retried error returns
\* when the timeout is set and exceeded and sleeps otherwise; put_nowait and
\* get_nowait, and any other error, return the error as its exception.
Match(t) ==
  /\ facade[t].pc = "core"
  /\ pc[t] = "idle"
  /\ LET f == facade[t]
         e == result[t]
     IN  IF e = Ok
         THEN facade' = [facade EXCEPT ![t] = Returned(f, "Ok", f.oks + 1)]
         ELSE IF f.wait /\ retries(f.op, e) /\ ~timed_out(f.timeout, f.start)
         THEN facade' = [facade EXCEPT ![t].pc = "sleep", ![t].slept = TRUE]
         ELSE facade' = [facade EXCEPT ![t] = Returned(f, PyErr(e), f.oks)]
  /\ UNCHANGED <<shared, locals, init_call, segment, queues, now, closed, len_query, solo, construction, lib>>

\* std::thread::sleep(1 ms) is over (a clock tick may be longer than the sleep).
Wake(t) ==
  /\ facade[t].pc = "sleep"
  /\ facade' = [facade EXCEPT ![t].pc = "attempt"]
  /\ UNCHANGED <<shared, locals, init_call, segment, queues, now, closed, len_query, solo, construction, lib>>

\* The clock advances.
Tick ==
  /\ now < MaxTime
  /\ now' = now + 1
  /\ UNCHANGED <<shared, locals, init_call, segment, queues, facade, closed, len_query, solo, construction, lib>>

\* The timeouts passed to put and get.
Timeouts == {None} \cup {Some(t) : t \in 0..MaxTimeout}

\* put / get with each timeout, and put_nowait / get_nowait.
Modes == {<<TRUE, tm>> : tm \in Timeouts} \cup {<<FALSE, None>>}

\* One producer thread and one consumer thread of a process using its Queue.
FacadeNext ==
  \/ \E b \in Sources("p1") : \E m \in Modes :
       TotalCalls < FacadeCalls /\ Put("p1", b, m[2], m[1])
  \/ PutAttempt("p1")
  \/ ProducerStep("p1")
  \/ \E m \in Modes : TotalCalls < FacadeCalls /\ Get("c1", m[2], m[1])
  \/ GetAttempt("c1")
  \/ ConsumerStep("c1")
  \/ \E t \in {"p1", "c1"} : Match(t)
  \/ \E t \in {"p1", "c1"} : Wake(t)
  \/ \E t \in {"p1", "c1"} : TotalCalls < FacadeCalls /\ Getter(t)
  \/ Tick

\* The ring after k enqueues of zero bytes and no dequeue, nothing running.
HoldingRing(k) ==
  /\ element_size = ElemSize
  /\ buffer_mask = Capacity - 1
  /\ enqueue_pos = k
  /\ dequeue_pos = 0
  /\ sequence = [i \in 0..(Capacity - 1) |-> IF i < k THEN i + 1 ELSE i]
  /\ data = [j \in 0..(Capacity * ElemSize - 1) |->
               IF j \div ElemSize < k THEN 0 ELSE Uninit]

\* The calls start on an empty ring or on a full one.
InitFacade == (\E k \in {0, Capacity} : HoldingRing(k)) /\ InitThreads /\ InitExt

SpecFacade == InitFacade /\ [][FacadeNext]_vars

\* ------------------------------------------------------------- close
\* close() as the specification describes it; the source has no such method,
\* the flag is stored only by Drop, whose body this is: nothing when already
\* closed, else closed.store(true).
Close ==
  /\ closed' = TRUE
  /\ UNCHANGED <<shared, locals, init_call, segment, queues, facade, now, len_query, solo, construction, lib>>

CloseNext == FacadeNext \/ Close

SpecClose == InitFacade /\ [][CloseNext]_vars

\* ------------------------------------------- waiting without a timeout
\* A producer thread calling put(item, None) and a consumer thread calling
\* get(None).
LiveNext ==
  \/ TotalCalls < LiveCalls /\ Put("p1", Payload("p1", ops["p1"] + 1), None, TRUE)
  \/ PutAttempt("p1")
  \/ ProducerStep("p1")
  \/ TotalCalls < LiveCalls /\ Get("c1", None, TRUE)
  \/ GetAttempt("c1")
  \/ ConsumerStep("c1")
  \/ \E t \in {"p1", "c1"} : Match(t)
  \/ \E t \in {"p1", "c1"} : Wake(t)

\* A step of thread t inside a call it has made.
Running(t) ==
  \/ PutAttempt(t)
  \/ GetAttempt(t)
  \/ ProducerStep(t)
  \/ ConsumerStep(t)
  \/ Match(t)
  \/ Wake(t)

\* Each thread that is inside a call keeps taking steps; whether and when a
\* thread makes a call is left open, and so is the outcome of each weak
\* compare-exchange.
SpecLive ==
  /\ InitFacade
  /\ [][LiveNext]_vars
  /\ WF_vars(Running("p1"))
  /\ WF_vars(Running("c1"))

\* ------------------------------------------- the named-lock queue (lib.rs)
\* try_put under the named lock, seen from outside the lock: the cursor moves
\* once, at the compare-exchange that succeeds (after any spurious failures);
\* Ok(false) when the slot at the cursor is still occupied.
TryPut(t, b) ==
  /\ Len(b) = element_size
  /\ enqueue_dif(sequence[cell_index(enqueue_pos)], enqueue_pos) <= 0
  /\ ops' = [ops EXCEPT ![t] = @ + 1]
  /\ IF enqueue_dif(sequence[cell_index(enqueue_pos)], enqueue_pos) = 0
     THEN /\ enqueue_pos' = WrapAdd(enqueue_pos, 1)
          /\ data' = write_slot_data(enqueue_pos, b)
          /\ sequence' = [sequence EXCEPT ![cell_index(enqueue_pos)] =
                            WrapAdd(enqueue_pos, 1)]
          /\ enqLog' = Append(enqLog, <<enqueue_pos, b>>)
          /\ result' = [result EXCEPT ![t] = Ok]
     ELSE /\ result' = [result EXCEPT ![t] = QueueFull]
          /\ UNCHANGED <<enqueue_pos, data, sequence, enqLog>>
  /\ UNCHANGED <<element_size, buffer_mask, dequeue_pos, pc, pos, src, dst, deqLog>>
  /\ UNCHANGED ext

\* try_get under the named lock: Ok(None) when the slot at the cursor is not
\* published; the releasing store is pos + capacity.
TryGet(t) ==
  /\ dequeue_dif(sequence[cell_index(dequeue_pos)], dequeue_pos) <= 0
  /\ ops' = [ops EXCEPT ![t] = @ + 1]
  /\ IF dequeue_dif(sequence[cell_index(dequeue_pos)], dequeue_pos) = 0
     THEN /\ dequeue_pos' = WrapAdd(dequeue_pos, 1)
          /\ dst' = [dst EXCEPT ![t] = read_slot_data(dequeue_pos)]
          /\ sequence' = [sequence EXCEPT ![cell_index(dequeue_pos)] =
                            WrapAdd(dequeue_pos, buffer_mask + 1)]
          /\ deqLog' = Append(deqLog, <<dequeue_pos, read_slot_data(dequeue_pos)>>)
          /\ result' = [result EXCEPT ![t] = Ok]
     ELSE /\ result' = [result EXCEPT ![t] = QueueEmpty]
          /\ UNCHANGED <<dequeue_pos, dst, sequence, deqLog>>
  /\ UNCHANGED <<element_size, buffer_mask, enqueue_pos, data, pc, pos, src, enqLog>>
  /\ UNCHANGED ext

\* usize::saturating_sub
saturating_sub(a, b) == IF a >= b THEN a - b ELSE 0

\* __len__: `head = dequeue_pos.load(Acquire)`, outside the lock.
LenLoadHead ==
  /\ len_query.pc = "idle"
  /\ len_query' = [len_query EXCEPT !.pc = "head_loaded", !.head = dequeue_pos,
                                     !.was_empty = (enqueue_pos = dequeue_pos)]
  /\ UNCHANGED <<shared, locals, init_call, segment, queues, methods, solo, construction, lib>>

\* A second load that reads dequeue_pos again.
LenLoadTail_dequeue_pos ==
  /\ len_query.pc = "head_loaded"
  /\ len_query' = [len_query EXCEPT !.pc = "idle", !.tail = dequeue_pos,
                     !.len = saturating_sub(dequeue_pos, len_query.head),
                     !.full = saturating_sub(dequeue_pos, len_query.head) >= buffer_mask + 1]
  /\ UNCHANGED <<shared, locals, init_call, segment, queues, methods, solo, construction, lib>>

\* __len__: `tail = enqueue_pos.load(Acquire)` and the result
\* tail.saturating_sub(head); full() is `__len__() >= capacity`.
LenLoadTail ==
  /\ len_query.pc = "head_loaded"
  /\ len_query' = [len_query EXCEPT !.pc = "idle", !.tail = enqueue_pos,
                     !.len = saturating_sub(enqueue_pos, len_query.head),
                     !.full = saturating_sub(enqueue_pos, len_query.head) >= buffer_mask + 1]
  /\ UNCHANGED <<shared, locals, init_call, segment, queues, methods, solo, construction, lib>>

\* Puts and gets of other threads and processes around a length query.
LenNext ==
  \/ TotalCalls < LenCalls /\ TryPut("p1", Payload("p1", ops["p1"] + 1))
  \/ TotalCalls < LenCalls /\ TryGet("c1")
  \/ LenLoadHead
  \/ LenLoadTail

SpecLen == Init /\ [][LenNext]_vars

\* --------------------------------------------- the layout of lib.rs
\* size_of::<Header>(): magic, capacity, element_size, mask and the two cursors.
LibHeaderSize == 6 * UsizeBytes

\* align_of::<Header>() (repr(C, align(8))) and align_of::<AtomicUsize>().
LibHeaderAlign == UsizeBytes
SeqAlign == UsizeBytes

\* The None of checked_add / checked_sub / checked_mul.
Overflow == -1

checked_add(a, b) == IF a = Overflow \/ a + b >= SizeWord THEN Overflow ELSE a + b
checked_sub(a, b) == IF a = Overflow \/ a < b THEN Overflow ELSE a - b
checked_mul(a, b) == IF a * b >= SizeWord THEN Overflow ELSE a * b

\* x & !(align - 1), align a power of two.
mask_down(x, align) == (x \div align) * align

\* calculate_layout: the sizes, or the ValueError it raises.
calculate_layout(capacity, es) ==
  LET buffer_size == checked_mul(capacity, es)
      sequences_size == checked_mul(capacity, UsizeBytes)
      total_size ==
        checked_add(checked_add(checked_add(checked_add(checked_sub(LibHeaderAlign, 1),
          LibHeaderSize), buffer_size), checked_sub(SeqAlign, 1)), sequences_size)
  IN  IF capacity < 2 \/ ~is_power_of_two(capacity) \/ buffer_size = Overflow
         \/ sequences_size = Overflow \/ total_size = Overflow
      THEN [kind |-> "ValueError", total_size |-> 0, buffer_size |-> 0, sequences_size |-> 0]
      ELSE [kind |-> "Ok", total_size |-> total_size, buffer_size |-> buffer_size,
            sequences_size |-> sequences_size]

\* A sequence array placed at the last aligned address below the buffer's end.
sequences_addr_round_down(buffer_end) == mask_down(buffer_end - 1, SeqAlign)

\* Queue::new: (buffer_end + seq_align - 1 - 1) & !(seq_align - 1), or Overflow.
sequences_addr(buffer_end) ==
  LET v == checked_sub(checked_add(buffer_end, SeqAlign - 1), 1)
  IN  IF v = Overflow THEN Overflow ELSE mask_down(v, SeqAlign)

\* Queue::new(create = true) on a segment mapped at base: the pointers of the
\* Queue it returns, or the exception it raises.
LibQueueNew(base, capacity, es) ==
  LET l == calculate_layout(capacity, es)
      header_addr == mask_down(usize_add(base, LibHeaderAlign - 1), LibHeaderAlign)
      buffer_start == usize_add(header_addr, LibHeaderSize)
      buffer_end == checked_add(buffer_start, l.buffer_size)
      failed(k) == [NoLibQueue EXCEPT !.kind = k, !.base = base, !.capacity = capacity,
                                      !.element_size = es]
  IN  IF l.kind # "Ok" THEN failed("ValueError")
      ELSE IF buffer_end = Overflow \/ sequences_addr(buffer_end) = Overflow
      THEN failed("RuntimeError")
      ELSE [kind |-> "Queue", base |-> base, capacity |-> capacity, element_size |-> es,
            total_size |-> l.total_size, header |-> header_addr, buffer |-> buffer_start,
            buffer_end |-> buffer_end, sequences |-> sequences_addr(buffer_end)]

\* One call of Queue::new(create = true) with any arguments, the segment
\* mapped at any address.
LibNew ==
  /\ lib_new.kind = "none"
  /\ \E base \in 0..MaxAddr : \E capacity \in 0..MaxCapacity : \E es \in LayoutElemSizes :
       lib_new' = LibQueueNew(base, capacity, es)
  /\ UNCHANGED <<shared, locals, init_call, segment, queues, methods, len_query, solo,
                 construction, gil, named_lock, lib_pc, twin>>

SpecLibNew == Init /\ [][LibNew]_vars

\* ------------------------------- the interpreter lock and the named lock
\* A thread calls a method of the lib.rs Queue holding the interpreter lock.
\* put and get release it (py.allow_threads) around their loop over try_put /
\* try_get; put_nowait and get_nowait keep it. try_put / try_get take the named
\* lock (with_lock), then the interpreter lock (Python::with_gil), release the
\* interpreter lock around the ring operation and take it again after it.

\* What the steps of the lock protocol leave alone.
LockFrame ==
  UNCHANGED <<shared, init_call, segment, queues, methods, len_query, solo, construction,
              lib_new, twin>>

At(t, a) == lib_pc[t].at = a
Goto(t, a) == lib_pc' = [lib_pc EXCEPT ![t].at = a]

\* The interpreter runs thread t, which calls put / get (wait) or put_nowait /
\* get_nowait.
LibCall(t, wait) ==
  /\ At(t, "idle")
  /\ gil = "none"
  /\ gil' = t
  /\ lib_pc' = [lib_pc EXCEPT ![t] = [at |-> "called", wait |-> wait]]
  /\ result' = [result EXCEPT ![t] = NoResult]
  /\ UNCHANGED <<pc, pos, src, dst, ops, enqLog, deqLog, named_lock>>
  /\ LockFrame

\* put / get: py.allow_threads releases the interpreter lock; put_nowait /
\* get_nowait go straight to try_put / try_get.
EnterTry(t) ==
  /\ At(t, "called")
  /\ gil' = IF lib_pc[t].wait THEN "none" ELSE gil
  /\ Goto(t, "with_lock")
  /\ UNCHANGED <<locals, named_lock>>
  /\ LockFrame

\* with_lock: self.lock.lock(), blocking until the named lock is free.
LockNamed(t) ==
  /\ At(t, "with_lock")
  /\ named_lock = "none"
  /\ named_lock' = t
  /\ Goto(t, "with_gil")
  /\ UNCHANGED <<locals, gil>>
  /\ LockFrame

\* Python::with_gil inside the named lock: blocks until the interpreter lock is
\* free unless the thread holds it already.
InnerWithGil(t) ==
  /\ At(t, "with_gil")
  /\ gil \in {"none", t}
  /\ gil' = t
  /\ Goto(t, "allow_threads")
  /\ UNCHANGED <<locals, named_lock>>
  /\ LockFrame

\* py.allow_threads inside with_gil: the interpreter lock is released.
InnerAllowThreads(t) ==
  /\ At(t, "allow_threads")
  /\ gil' = "none"
  /\ Goto(t, "ring")
  /\ UNCHANGED <<locals, named_lock>>
  /\ LockFrame

\* The body of try_put / try_get, under the named lock.
LibTryPut(t) ==
  /\ At(t, "ring")
  /\ result[t] = NoResult
  /\ TryPut(t, Payload(t, ops[t] + 1))

LibTryGet(t) ==
  /\ At(t, "ring")
  /\ result[t] = NoResult
  /\ TryGet(t)

\* The end of the inner allow_threads: the interpreter lock is taken again,
\* the named lock still held.
InnerReacquire(t) ==
  /\ At(t, "ring")
  /\ result[t] # NoResult
  /\ gil = "none"
  /\ gil' = t
  /\ Goto(t, "with_gil_end")
  /\ UNCHANGED <<locals, named_lock>>
  /\ LockFrame

\* The end of with_gil (the interpreter lock goes back to what it was before)
\* and of with_lock (the guard is dropped).
Unlock(t) ==
  /\ At(t, "with_gil_end")
  /\ gil' = IF lib_pc[t].wait THEN "none" ELSE gil
  /\ named_lock' = "none"
  /\ Goto(t, "tried")
  /\ UNCHANGED locals
  /\ LockFrame

\* put / get after Ok(false) / Ok(None) without a timeout that has run out:
\* Python::with_gil(|_| sleep(1 ms)).
Sleep(t) ==
  /\ At(t, "tried")
  /\ lib_pc[t].wait
  /\ result[t] \in {QueueFull, QueueEmpty}
  /\ gil = "none"
  /\ gil' = t
  /\ Goto(t, "sleeping")
  /\ UNCHANGED <<locals, named_lock>>
  /\ LockFrame

\* The sleep is over; with_gil releases the interpreter lock and the loop
\* calls try_put / try_get again.
Wakeup(t) ==
  /\ At(t, "sleeping")
  /\ gil' = "none"
  /\ lib_pc' = [lib_pc EXCEPT ![t].at = "with_lock"]
  /\ result' = [result EXCEPT ![t] = NoResult]
  /\ UNCHANGED <<pc, pos, src, dst, ops, enqLog, deqLog, named_lock>>
  /\ LockFrame

\* put / get return (element moved, or the timeout has run out): the outer
\* allow_threads takes the interpreter lock again.
OuterReacquire(t) ==
  /\ At(t, "tried")
  /\ lib_pc[t].wait
  /\ gil = "none"
  /\ gil' = t
  /\ Goto(t, "returning")
  /\ UNCHANGED <<locals, named_lock>>
  /\ LockFrame

\* The method returns to the interpreter, which may run another thread.
LibReturn(t) ==
  /\ At(t, "returning") \/ (At(t, "tried") /\ ~lib_pc[t].wait)
  /\ gil' = "none"
  /\ Goto(t, "idle")
  /\ UNCHANGED <<locals, named_lock>>
  /\ LockFrame

LocksNext ==
  \/ \E t \in Threads : \E wait \in BOOLEAN : TotalCalls < LockCalls /\ LibCall(t, wait)
  \/ \E t \in Threads : EnterTry(t)
  \/ \E t \in Threads : LockNamed(t)
  \/ \E t \in Threads : InnerWithGil(t)
  \/ \E t \in Threads : InnerAllowThreads(t)
  \/ \E t \in Producers : LibTryPut(t)
  \/ \E t \in Consumers : LibTryGet(t)
  \/ \E t \in Threads : InnerReacquire(t)
  \/ \E t \in Threads : Unlock(t)
  \/ \E t \in Threads : TotalCalls < LockCalls /\ Sleep(t)
  \/ \E t \in Threads : Wakeup(t)
  \/ \E t \in Threads : OuterReacquire(t)
  \/ \E t \in Threads : LibReturn(t)

SpecLocks == Init /\ [][LocksNext]_vars

\* ---------------------------------- the same calls on lib.rs and on the core
\* try_put and try_get of lib.rs as functions of the ring they work on (one
\* call at a time, so the compare-exchange succeeds, after any spurious
\* failures, with the cursor it loaded).

\* try_get's releasing store with the mask for the capacity.
release_sequence_mask(p, capacity) == WrapAdd(p, capacity - 1)

\* try_get: `pos + self.capacity()`
release_sequence(p, capacity) == WrapAdd(p, capacity)

try_put(r, b) ==
  LET p == r.enqueue_position
      index == p % (r.mask + 1)
      diff == SignedSub(AsSigned(r.sequences[index]), AsSigned(p))
      offset == index * r.element_size
  IN  IF Len(b) # r.element_size
      THEN [r EXCEPT !.op = "put", !.outcome = "ValueError", !.bytes = <<>>]
      ELSE IF diff = 0
      THEN [r EXCEPT !.op = "put", !.outcome = "Ok(true)", !.bytes = <<>>,
                     !.enqueue_position = WrapAdd(p, 1),
                     !.buffer = [j \in DOMAIN r.buffer |->
                                   IF j >= offset /\ j < offset + r.element_size
                                   THEN b[j - offset + 1] ELSE r.buffer[j]],
                     !.sequences = [r.sequences EXCEPT ![index] = WrapAdd(p, 1)]]
      ELSE IF diff < 0
      THEN [r EXCEPT !.op = "put", !.outcome = "Ok(false)", !.bytes = <<>>]
      ELSE [r EXCEPT !.op = "put", !.outcome = "spins", !.bytes = <<>>]

try_get(r) ==
  LET p == r.dequeue_position
      index == p % (r.mask + 1)
      diff == SignedSub(AsSigned(r.sequences[index]), AsSigned(WrapAdd(p, 1)))
      offset == index * r.element_size
  IN  IF diff = 0
      THEN [r EXCEPT !.op = "get", !.outcome = "Ok(Some)",
                     !.bytes = [i \in 1..r.element_size |-> r.buffer[offset + i - 1]],
                     !.dequeue_position = WrapAdd(p, 1),
                     !.sequences = [r.sequences EXCEPT ![index] = release_sequence(p, r.capacity)]]
      ELSE IF diff < 0
      THEN [r EXCEPT !.op = "get", !.outcome = "Ok(None)", !.bytes = <<>>]
      ELSE [r EXCEPT !.op = "get", !.outcome = "spins", !.bytes = <<>>]

\* The same call is made on both queues, one call at a time: enqueue / dequeue
\* of the core run step by step, try_put / try_get on the twin.
TwinNext ==
  \/ \E b \in Sources("p1") :
       /\ AllIdle /\ ops["p1"] < TwinOps
       /\ EnqueueCall("p1", b)
       /\ twin' = try_put(twin, b)
       /\ UNCHANGED <<init_call, segment, queues, methods, len_query, solo, construction,
                      lib_new, gil, named_lock, lib_pc>>
  \/ ProducerStep("p1")
  \/ /\ AllIdle /\ ops["c1"] < TwinOps
     /\ DequeueCall("c1", ElemSize)
     /\ twin' = try_get(twin)
     /\ UNCHANGED <<init_call, segment, queues, methods, len_query, solo, construction,
                    lib_new, gil, named_lock, lib_pc>>
  \/ ConsumerStep("c1")

SpecTwin == Init /\ [][TwinNext]_vars

\* ------------------------------------------- the core under fair scheduling
\* Producers and consumers running concurrently, ProgressCalls calls in all.
ProgressNext ==
  \/ \E t \in Producers :
       TotalCalls < ProgressCalls /\ EnqueueCall(t, Payload(t, ops[t] + 1)) /\ UNCHANGED ext
  \/ \E t \in Producers : ProducerStep(t)
  \/ \E t \in Consumers :
       TotalCalls < ProgressCalls /\ DequeueCall(t, ElemSize) /\ UNCHANGED ext
  \/ \E t \in Consumers : ConsumerStep(t)

\* Every thread that is inside enqueue or dequeue keeps taking steps; when calls
\* are made, and whether a weak compare-exchange fails, is left open.
SpecProgress ==
  /\ Init
  /\ [][ProgressNext]_vars
  /\ WF_vars(ProducerStep("p1"))
  /\ WF_vars(ProducerStep("p2"))
  /\ WF_vars(ConsumerStep("c1"))
  /\ WF_vars(ConsumerStep("c2"))

\* --------------------------------- one thread running, the others suspended
\* Thread t may take a step: nobody runs alone, or t does.
Scheduled(t) == solo \in {"none", t}

\* From here on only thread t takes steps; the others stay where they are,
\* inside or outside a call.
RunAlone(t) ==
  /\ solo = "none"
  /\ solo' = t
  /\ UNCHANGED <<shared, locals, init_call, segment, queues, methods, len_query, construction, lib>>

\* A step of thread t inside enqueue or dequeue, when t is scheduled.
SoloStep(t) == Scheduled(t) /\ (ProducerStep(t) \/ ConsumerStep(t))

\* Any interleaving of the four threads, SoloCalls calls in all, until one
\* thread is left to run alone.
SoloNext ==
  \/ \E t \in Producers :
       /\ Scheduled(t)
       /\ TotalCalls < SoloCalls
       /\ EnqueueCall(t, Payload(t, ops[t] + 1))
       /\ UNCHANGED ext
  \/ \E t \in Consumers :
       /\ Scheduled(t)
       /\ TotalCalls < SoloCalls
       /\ DequeueCall(t, ElemSize)
       /\ UNCHANGED ext
  \/ \E t \in Threads : SoloStep(t)
  \/ \E t \in Threads : RunAlone(t)

\* The ring starts empty or full; a scheduled thread that is inside a call
\* keeps taking steps.
SpecSolo ==
  /\ InitFacade
  /\ [][SoloNext]_vars
  /\ WF_vars(SoloStep("p1"))
  /\ WF_vars(SoloStep("p2"))
  /\ WF_vars(SoloStep("c1"))
  /\ WF_vars(SoloStep("c2"))

\* ------------------------------------------- cursors at the end of the word
\* Cursor values shortly before the signed maximum and before the word's end.
WrapStarts ==
  ((Word \div 2 - WrapBack)..(Word \div 2 - 1)) \cup ((Word - WrapBack)..(Word - 1))

\* A ring that has been through c enqueues and dequeues, c close to a boundary.
InitWrap == (\E c \in WrapStarts : QuiescentRing(c)) /\ InitThreads /\ InitExt

\* One producer and one consumer running concurrently across the boundary.
WrapNext ==
  \/ ops["p1"] < WrapOps /\ EnqueueCall("p1", Payload("p1", ops["p1"] + 1)) /\ UNCHANGED ext
  \/ ProducerStep("p1")
  \/ ops["c1"] < WrapOps /\ DequeueCall("c1", ElemSize) /\ UNCHANGED ext
  \/ ConsumerStep("c1")

SpecWrap == InitWrap /\ [][WrapNext]_vars

\* ------------------------------------------------------------ history
Max(a, b) == IF a >= b THEN a ELSE b

\* The positions whose producer has stored sequence = pos + 1.
Published == {enqLog[i][1] : i \in DOMAIN enqLog}

\* The positions whose consumer has stored sequence = pos + N.
Released == {deqLog[i][1] : i \in DOMAIN deqLog}

EnqVals == [i \in DOMAIN enqLog |-> enqLog[i][2]]
DeqVals == [i \in DOMAIN deqLog |-> deqLog[i][2]]

\* The consumer holding position p between its claim and its release.
Reading(p) == \E c \in Consumers : pc[c] \in {"copy", "publish"} /\ pos[c] = p

\* The bytes of the slot of position p.
SlotBytes(p) == [i \in 1..element_size |-> data[cell_index(p) * element_size + i - 1]]

\* -------------------------------------------------------------- C1
\* C1: under any interleaving of the producers and consumers, with distinct
\* enqueued values: every dequeued value was enqueued, no value is dequeued
\* twice, every enqueued value is either delivered, held by the consumer that
\* claimed it, or still published in its slot, and once every call has
\* returned, enqueues = dequeues + (enqueue_pos - dequeue_pos).
C1_NoDupNoLoss ==
  /\ \A i \in DOMAIN deqLog : \E j \in DOMAIN enqLog : deqLog[i][2] = enqLog[j][2]
  /\ \A i, j \in DOMAIN deqLog : i # j => deqLog[i][2] # deqLog[j][2]
  /\ \A j \in DOMAIN enqLog :
       \/ \E i \in DOMAIN deqLog : deqLog[i][2] = enqLog[j][2]
       \/ \E c \in Consumers :
            /\ pos[c] = enqLog[j][1]
            /\ \/ pc[c] = "publish" /\ dst[c] = enqLog[j][2]
               \/ pc[c] = "copy" /\ SlotBytes(enqLog[j][1]) = enqLog[j][2]
       \/ /\ enqLog[j][1] >= dequeue_pos
          /\ enqLog[j][1] < enqueue_pos
          /\ sequence[cell_index(enqLog[j][1])] = enqLog[j][1] + 1
          /\ SlotBytes(enqLog[j][1]) = enqLog[j][2]
  /\ AllIdle => Len(enqLog) = Len(deqLog) + (enqueue_pos - dequeue_pos)

C1_Witness ==
  /\ AllIdle
  /\ Len(enqLog) = 3
  /\ Len(deqLog) = 2
  /\ \E i, j \in DOMAIN enqLog : enqLog[i][2][1] # enqLog[j][2][1]
  /\ result["c1"] = Ok
  /\ result["c2"] = Ok

\* -------------------------------------------------------------- C5
\* C5: in every reachable state dequeue_pos <= enqueue_pos <= dequeue_pos + N.
C5_CursorBounds ==
  /\ dequeue_pos <= enqueue_pos
  /\ enqueue_pos <= dequeue_pos + buffer_mask + 1

\* The ring is full and a producer that saw its slot free is about to try its CAS.
C5_Witness ==
  /\ enqueue_pos = dequeue_pos + buffer_mask + 1
  /\ dequeue_pos > 0
  /\ \E p \in Producers : pc[p] = "cas"
  /\ \E c \in Consumers : pc[c] = "cas"

\* -------------------------------------------------------------- C6
\* C6: every position a producer has claimed beyond the first N reuses a slot
\* whose previous position has been released (its consumer stored pos + N), and
\* every position a consumer has claimed has been published (its producer
\* stored pos + 1).
C6_NoFalseSuccess ==
  /\ \A p \in 0..(enqueue_pos - 1) : p >= buffer_mask + 1 => (p - (buffer_mask + 1)) \in Released
  /\ \A p \in 0..(dequeue_pos - 1) : p \in Published

\* A slot has been reused while another producer and a consumer are mid-operation.
C6_Witness ==
  /\ enqueue_pos > buffer_mask + 1
  /\ \E p \in Producers : pc[p] = "copy" /\ pos[p] >= buffer_mask + 1
  /\ \E p \in Producers : pc[p] = "load_seq"
  /\ \E c \in Consumers : pc[c] = "copy"

\* -------------------------------------------------------------- C2
\* C2: with one producer and one consumer running concurrently, the values
\* dequeued so far are at every point a prefix of the values enqueued so far.
C2_SpscPrefix ==
  /\ Len(deqLog) <= Len(enqLog)
  /\ \A i \in DOMAIN deqLog : DeqVals[i] = EnqVals[i]

\* Two elements delivered; the producer is publishing into a reused slot while
\* the consumer is inside its reservation loop.
C2_Witness ==
  /\ Len(deqLog) = 2
  /\ pc["p1"] = "publish"
  /\ pos["p1"] >= buffer_mask + 1
  /\ pc["c1"] = "load_seq"

\* -------------------------------------------------------------- C3
\* The bounded FIFO the ring stands for: the enqueued values not yet dequeued.
Fifo == SubSeq(EnqVals, Len(deqLog) + 1, Len(enqLog))

\* C3: with one operation at a time, an enqueue returns QueueFull exactly when
\* the FIFO holds N elements and otherwise appends its value; a dequeue returns
\* QueueEmpty exactly when the FIFO is empty and otherwise removes and returns
\* its head.
C3_SequentialFifo ==
  [][\A t \in Threads :
       (pc[t] # "idle" /\ pc'[t] = "idle") =>
         IF t \in Producers
         THEN /\ result'[t] = QueueFull <=> Len(Fifo) = buffer_mask + 1
              /\ result'[t] = Ok <=> Len(Fifo) < buffer_mask + 1
              /\ result'[t] = QueueFull => Fifo' = Fifo
              /\ result'[t] = Ok => Fifo' = Append(Fifo, src[t])
         ELSE /\ result'[t] = QueueEmpty <=> Fifo = <<>>
              /\ result'[t] = Ok <=> Fifo # <<>>
              /\ result'[t] = QueueEmpty => Fifo' = Fifo
              /\ result'[t] = Ok => dst'[t] = Head(Fifo) /\ Fifo' = Tail(Fifo)]_vars

\* QueueFull on a full ring whose slots are in their third generation or later.
C3_Witness ==
  /\ AllIdle
  /\ result["p1"] = QueueFull
  /\ Len(Fifo) = buffer_mask + 1
  /\ dequeue_pos >= 2 * (buffer_mask + 1)
  /\ Len(deqLog) >= 1

\* -------------------------------------------------------------- C4
\* C4: from any empty ring with nothing running, a dequeue that follows an
\* enqueue of bytes b with no operation in between returns Ok and yields b.
C4_RoundTrip ==
  [][\A t \in Consumers :
       (pc[t] # "idle" /\ pc'[t] = "idle" /\ Len(enqLog) = Len(deqLog) + 1) =>
         /\ result'[t] = Ok
         /\ Len(dst'[t]) = element_size
         /\ dst'[t] = enqLog[Len(enqLog)][2]]_vars

\* A lone enqueue of bytes 1, 0 into slot 1 of a ring at a later generation,
\* then a lone dequeue that returned them.
C4_Witness ==
  /\ AllIdle
  /\ Len(enqLog) = 1
  /\ Len(deqLog) = 1
  /\ ops["p1"] = 1
  /\ ops["c1"] = 1
  /\ result["c1"] = Ok
  /\ dst["c1"] = [i \in 1..ElemSize |-> IF i = 1 THEN 1 ELSE 0]
  /\ deqLog[1][1] > buffer_mask + 1
  /\ cell_index(deqLog[1][1]) = 1

\* -------------------------------------------------------------- C7
\* Slot i holds a position a producer has claimed and no consumer has released.
Occupied(i) ==
  \E p \in 0..(enqueue_pos - 1) : cell_index(p) = i /\ p \notin Released

\* C7 as stated: an enqueue returns QueueFull only when, at its load of the
\* slot sequence, every slot is occupied (none has been released for reuse).
C7_FullOnlyIfAllOccupied ==
  [][\A t \in Producers :
       (pc[t] = "load_seq" /\ pc'[t] = "idle") =>
         \A i \in 0..buffer_mask : Occupied(i)]_vars

\* C7 amended: a load of the slot sequence ends the call with QueueFull exactly
\* when the slot of the loaded cursor position pos is still occupied: position
\* pos - N has not been released by its consumer.
C7_FullIffSlotUnreleased ==
  [][\A t \in Producers :
       (pc[t] = "load_seq" /\ pc'[t] # "load_seq") =>
         ((pc'[t] = "idle" /\ result'[t] = QueueFull) <=>
          (pos[t] >= buffer_mask + 1 /\ (pos[t] - (buffer_mask + 1)) \notin Released))]_vars

\* QueueFull returned while one slot is released and the other is still being
\* read by a consumer.
C7_Witness ==
  /\ \E p \in Producers : pc[p] = "idle" /\ result[p] = QueueFull
  /\ \E i \in 0..buffer_mask : ~Occupied(i)
  /\ \E c \in Consumers : pc[c] \in {"copy", "publish"}
  /\ enqueue_pos = buffer_mask + 1

\* -------------------------------------------------------------- C8
\* C8 as stated: a dequeue returns QueueEmpty only when, at its load of the slot
\* sequence, no element whose enqueue has returned Ok is still undelivered
\* (every published position has been claimed by a consumer).
C8_EmptyOnlyIfAllFree ==
  [][\A t \in Consumers :
       (pc[t] = "load_seq" /\ pc'[t] = "idle") =>
         \A p \in Published : p < dequeue_pos]_vars

\* C8 amended: a load of the slot sequence ends the call with QueueEmpty
\* exactly when the element of the loaded cursor position pos has not been
\* published (its producer has not stored pos + 1).
C8_EmptyIffSlotUnpublished ==
  [][\A t \in Consumers :
       (pc[t] = "load_seq" /\ pc'[t] # "load_seq") =>
         ((pc'[t] = "idle" /\ result'[t] = QueueEmpty) <=> pos[t] \notin Published)]_vars

\* QueueEmpty returned while a later position is published and the producer of
\* the cursor position has not yet published.
C8_Witness ==
  /\ \E c \in Consumers : pc[c] = "idle" /\ result[c] = QueueEmpty
  /\ dequeue_pos = 0
  /\ 1 \in Published
  /\ \E p \in Producers : pc[p] \in {"copy", "publish"} /\ pos[p] = 0

\* -------------------------------------------------------------- C9
\* The place of value v in the order of commits (publishing stores).
CommitIndex(v) == CHOOSE k \in DOMAIN enqLog : enqLog[k][2] = v

\* C9 as stated: the payloads delivered, ordered by dequeue position, are in
\* the order in which their producers committed.
C9_DeliveryInCommitOrder ==
  \A i, j \in DOMAIN deqLog :
    (/\ deqLog[i][1] < deqLog[j][1]
     /\ \E k \in DOMAIN enqLog : enqLog[k][2] = deqLog[i][2]
     /\ \E k \in DOMAIN enqLog : enqLog[k][2] = deqLog[j][2])
    => CommitIndex(deqLog[i][2]) < CommitIndex(deqLog[j][2])

\* C9 amended: the payload delivered at dequeue position p is the one whose
\* producer claimed position p, so delivery ordered by position is the order
\* in which the producers claimed, whatever the order of their commits.
C9_DeliveryInClaimOrder ==
  /\ \A i \in DOMAIN deqLog : \E k \in DOMAIN enqLog : enqLog[k] = deqLog[i]
  /\ \A i, j \in DOMAIN deqLog : i # j => deqLog[i][1] # deqLog[j][1]

\* Position 1 was committed before position 0, and both have been delivered.
C9_Witness ==
  /\ Len(enqLog) >= 2
  /\ enqLog[1][1] = 1
  /\ enqLog[2][1] = 0
  /\ {0, 1} \subseteq Released

\* -------------------------------------------------------------- C10
\* C10: a call with a slice of the wrong length returns the length error with
\* expected = element_size and actual = the slice's length, and leaves the
\* cursors, every sequence and the data as they were, whatever the state of
\* the ring; a call with the right length goes on to the reservation.
C10_LengthErrors ==
  [][\A t \in Threads :
       ops'[t] # ops[t] =>
         LET len == IF t \in Producers THEN Len(src'[t]) ELSE Len(dst'[t])
         IN  IF len # element_size
             THEN /\ result'[t] = IF t \in Producers
                                  THEN InvalidSourceLength(element_size, len)
                                  ELSE InvalidDestinationLength(element_size, len)
                  /\ pc'[t] = "idle"
                  /\ shared' = shared
             ELSE /\ pc'[t] = "load_pos"
                  /\ result'[t] = NoResult
                  /\ shared' = shared]_vars

\* The ring is full, and a producer's call with a long slice and a consumer's
\* call with a short destination have returned their length errors.
C10_Witness ==
  /\ enqueue_pos = dequeue_pos + buffer_mask + 1
  /\ \A p \in dequeue_pos..(enqueue_pos - 1) : p \in Published
  /\ result["p2"] = InvalidSourceLength(ElemSize, ElemSize + 1)
  /\ ops["p2"] = 1
  /\ ops["p1"] = 2
  /\ result["c1"] = InvalidDestinationLength(ElemSize, ElemSize - 1)

\* -------------------------------------------------------------- C20
\* C20: every slot sequence starts at its index i and only takes the values
\* i + k*N and i + k*N + 1; it changes only by the publishing store of the
\* producer that claimed position i + k*N (from i + k*N to i + k*N + 1) and by
\* the releasing store of the consumer that claimed that position (from
\* i + k*N + 1 to i + (k+1)*N), and each of these stores does change it.
C20_SlotSequenceSteps ==
  /\ \A i \in 0..buffer_mask : sequence[i] = i
  /\ [][\A i \in 0..buffer_mask :
          /\ sequence'[i] % (buffer_mask + 1) \in {i, (i + 1) % (buffer_mask + 1)}
          /\ sequence'[i] # sequence[i] =>
               \/ \E t \in Producers :
                    /\ pc[t] = "publish" /\ pc'[t] = "idle"
                    /\ cell_index(pos[t]) = i
                    /\ sequence[i] = pos[t]
                    /\ sequence'[i] = pos[t] + 1
               \/ \E t \in Consumers :
                    /\ pc[t] = "publish" /\ pc'[t] = "idle"
                    /\ cell_index(pos[t]) = i
                    /\ sequence[i] = pos[t] + 1
                    /\ sequence'[i] = pos[t] + buffer_mask + 1
          /\ \A t \in Threads :
               (pc[t] = "publish" /\ pc'[t] = "idle" /\ cell_index(pos[t]) = i)
                 => sequence'[i] > sequence[i]]_vars

\* Slot 0 is empty for its third generation and slot 1 for its second.
C20_Witness ==
  /\ AllIdle
  /\ sequence[0] = 2 * (buffer_mask + 1)
  /\ sequence[1] = 1 + buffer_mask + 1
  /\ Len(deqLog) = 3

\* -------------------------------------------------------------- C11
\* C11: init_on_buffer returns Ok exactly when capacity >= 2, capacity is a
\* power of two, the region length is at least required_size(element_size,
\* capacity) and the base address is aligned for the header; otherwise it
\* returns the error of the first failing check in that order, and on every
\* error nothing is written to the region.
C11_InitValidation ==
  [][init_call'.result # init_call.result =>
       LET c == init_call
           r == init_call'.result
           pow2 == c.buffer_size \in {2 ^ k : k \in 0..MaxCapacity}
           required == compute_required_size(c.element_size, c.buffer_size)
       IN  /\ r = Ok <=> /\ c.buffer_size >= 2
                         /\ pow2
                         /\ c.len >= required
                         /\ c.addr % HeaderAlign = 0
           /\ r # Ok =>
                /\ r = IF c.buffer_size < 2 THEN BufferTooSmall(2, c.buffer_size)
                       ELSE IF ~pow2 THEN BufferSizeNotPowerOfTwo(c.buffer_size)
                       ELSE IF c.len < required THEN BufferTooSmall(required, c.len)
                       ELSE BufferMisaligned(HeaderAlign, c.addr % HeaderAlign)
                /\ shared' = shared]_vars

\* A capacity of 4 on a raw region that is long enough but misaligned: the last
\* check fails and the region is still raw.
C11_Witness ==
  /\ init_call.new
  /\ init_call.buffer_size = 4
  /\ init_call.result = BufferMisaligned(HeaderAlign, 4)
  /\ element_size = Uninit
  /\ DOMAIN sequence = {}

\* -------------------------------------------------------------- C12
\* C12: a call of init_on_buffer with element_size = 0 returns an error, and
\* no initialised ring has element_size = 0.
C12_ZeroElementSizeRejected ==
  /\ init_call.element_size = 0 => init_call.result # Ok
  /\ element_size # 0

\* -------------------------------------------------------------- C13
\* C13: a joiner that attaches after the creator's Queue::new has returned, with
\* any enqueues and dequeues of the creator's threads before and around it,
\* gets a queue whose element_size and capacity are the values the creator
\* passed, and the header keeps showing them; the attach changes nothing in the
\* segment; each dequeue of the joiner claims the position at the head of the
\* ring and returns the element enqueued at that position.
C13_JoinerSeesCreatorsRing ==
  [][/\ queues'["joiner"] # queues["joiner"] =>
          /\ shared' = shared
          /\ segment' = segment
          /\ queues["creator"].kind = "Queue" =>
               /\ queues'["joiner"].kind = "Queue"
               /\ queues'["joiner"].element_size = queues["creator"].element_size
               /\ queues'["joiner"].capacity = queues["creator"].capacity
     /\ queues'["joiner"].kind = "Queue" =>
          /\ element_size' = queues'["creator"].element_size
          /\ buffer_mask' + 1 = queues'["creator"].capacity
     /\ (pc["c2"] = "cas" /\ pc'["c2"] = "copy") => pos["c2"] = dequeue_pos
     /\ (pc["c2"] = "publish" /\ pc'["c2"] = "idle") =>
          /\ result'["c2"] = Ok
          /\ dst["c2"] = EnqVals[pos["c2"] + 1]]_vars

\* On a ring of 4 slots the creator's consumer took the first element and the
\* joiner the second.
C13_Witness ==
  /\ AllIdle
  /\ queues["joiner"] = Queue(ElemSize, 4)
  /\ Len(enqLog) = 2
  /\ Len(deqLog) = 2
  /\ ops["c1"] = 1
  /\ ops["c2"] = 1
  /\ dst["c2"] = enqLog[2][2]

\* -------------------------------------------------------------- C14
\* C14 as stated: attaching to a segment shorter than required_size(header's
\* element_size, header's buffer_mask + 1) fails with BufferTooSmall, raised as
\* InvalidParameters, and writes nothing.
C14_ShortSegmentBufferTooSmall ==
  [][(/\ queues'["joiner"] # queues["joiner"]
      /\ segment.len < compute_required_size(element_size, buffer_mask + 1)) =>
       /\ queues'["joiner"].kind = "InvalidParameters"
       /\ queues'["joiner"].error.kind = "BufferTooSmall"
       /\ shared' = shared]_vars

\* C14 amended: attaching to such a segment fails with InvalidParameters and
\* writes nothing; the core error is BufferSizeNotPowerOfTwo when the header's
\* capacity is at least 2 and not a power of two, and BufferTooSmall otherwise.
C14_ShortSegmentRejected ==
  [][(/\ queues'["joiner"] # queues["joiner"]
      /\ segment.len < compute_required_size(element_size, buffer_mask + 1)) =>
       LET cap == buffer_mask + 1
           odd == cap >= 2 /\ cap \notin {2 ^ k : k \in 0..cap}
       IN  /\ queues'["joiner"].kind = "InvalidParameters"
           /\ queues'["joiner"].error =
                IF cap < 2 THEN BufferTooSmall(2, cap)
                ELSE IF odd THEN BufferSizeNotPowerOfTwo(cap)
                ELSE BufferTooSmall(compute_required_size(element_size, cap), segment.len)
           /\ shared' = shared]_vars

\* A header of a ring of 4 slots in a segment one byte short.
C14_Witness ==
  /\ buffer_mask = 3
  /\ segment.len = compute_required_size(element_size, 4) - 1
  /\ queues["joiner"].kind = "InvalidParameters"
  /\ queues["joiner"].error = BufferTooSmall(segment.len + 1, segment.len)

\* -------------------------------------------------------------- C16
\* C16: put goes to sleep only after the core returned QueueFull and get only
\* after QueueEmpty; when the core returns any other error the call returns it
\* (as InvalidParameters) from its first attempt, never having slept; when the
\* core returns Ok the call returns Ok at once; and the elements enqueued
\* (dequeued) are exactly one per call that returned or is about to return Ok.
C16_RetryOnlyFullOrEmpty ==
  [][\A t \in Threads :
       LET f == facade[t]
           retried == IF f.op = "put" THEN QueueFull ELSE QueueEmpty
           back == f.pc = "core" /\ pc[t] = "idle" /\ facade'[t] # f
           pending(u) == facade'[u].pc = "core" /\ pc'[u] = "idle" /\ result'[u] = Ok
       IN  /\ facade'[t].pc = "sleep" /\ f.pc # "sleep" => back /\ result[t] = retried
           /\ (back /\ result[t] \notin {Ok, retried}) =>
                /\ facade'[t].pc = "idle"
                /\ facade'[t].result = "InvalidParameters"
                /\ f.attempts = 1
                /\ ~f.slept
           /\ (back /\ result[t] = Ok) =>
                /\ facade'[t].pc = "idle"
                /\ facade'[t].result = "Ok"
           /\ Len(enqLog') = facade'["p1"].oks + (IF pending("p1") THEN 1 ELSE 0)
           /\ Len(deqLog') = facade'["c1"].oks + (IF pending("c1") THEN 1 ELSE 0)]_vars

\* put with an item of the wrong length has returned InvalidParameters on a
\* full ring without having slept, while a get is inside the core.
C16_Witness ==
  /\ facade["p1"].op = "put"
  /\ facade["p1"].result = "InvalidParameters"
  /\ ~facade["p1"].slept
  /\ enqueue_pos = dequeue_pos + buffer_mask + 1
  /\ facade["c1"].pc = "core"
  /\ pc["c1"] = "load_seq"

\* -------------------------------------------------------------- C17
\* C17: a blocking put returns QueueFull (a blocking get QueueEmpty) only when
\* its timeout is set, its latest attempt has just failed with that error, and
\* the clock shows at least the timeout since the call started; every call that
\* got past check_active returns only after at least one attempt.
C17_TimeoutBoundary ==
  [][\A t \in Threads :
       LET f == facade[t]
           retried == IF f.op = "put" THEN QueueFull ELSE QueueEmpty
           returns == f.pc # "idle" /\ facade'[t].pc = "idle"
       IN  /\ (returns /\ f.wait /\ facade'[t].result \in {"QueueFull", "QueueEmpty"}) =>
                /\ f.timeout.some
                /\ f.pc = "core" /\ pc[t] = "idle" /\ result[t] = retried
                /\ facade'[t].result = retried.kind
                /\ now - f.start >= f.timeout.t
           /\ returns => f.attempts >= 1]_vars

\* A blocking put on a full ring has returned QueueFull after sleeping, and
\* the clock has advanced.
C17_Witness ==
  /\ facade["p1"].op = "put"
  /\ facade["p1"].result = "QueueFull"
  /\ facade["p1"].slept
  /\ now >= 1
  /\ enqueue_pos = dequeue_pos + buffer_mask + 1

\* -------------------------------------------------------------- C15
\* C15: once the queue is closed it stays closed, every call made from then on
\* returns QueueClosed without entering the core, and a blocking put or get
\* that was asleep when the queue was closed returns QueueClosed instead of
\* making another attempt.
C15_ClosedOpsFail ==
  [][closed =>
       /\ closed'
       /\ \A t \in Threads :
            /\ (facade[t].pc = "idle" /\ facade'[t] # facade[t]) =>
                 /\ facade'[t].pc = "idle"
                 /\ facade'[t].result = "QueueClosed"
            /\ (facade[t].pc = "sleep" /\ facade'[t] # facade[t]) =>
                 /\ facade'[t].pc = "idle"
                 /\ facade'[t].result = "QueueClosed"]_vars

\* -------------------------------------------------------------- C18
\* A put without timeout has slept on the full ring, and the slot at the
\* producer cursor has since been released by a consumer's dequeue.
PutBlockedSlotFreed ==
  /\ facade["p1"].op = "put"
  /\ facade["p1"].pc # "idle"
  /\ facade["p1"].slept
  /\ (enqueue_pos - (buffer_mask + 1)) \in Released

\* A get without timeout has slept on the empty ring, and the element at the
\* consumer cursor has since been published by a producer's enqueue.
GetBlockedElementPublished ==
  /\ facade["c1"].op = "get"
  /\ facade["c1"].pc # "idle"
  /\ facade["c1"].slept
  /\ dequeue_pos \in Published

PutReturnedOk == facade["p1"].pc = "idle" /\ facade["p1"].result = "Ok"
GetReturnedOk == facade["c1"].pc = "idle" /\ facade["c1"].result = "Ok"

C19_LenWithinCapacity ==
  /\ len_query.len \in 0..(buffer_mask + 1)
  /\ len_query.full => len_query.len = buffer_mask + 1

\* -------------------------------------------------------------- C21
\* The producers holding position p between their claim and its publication.
Writers(p) == {t \in Producers : pc[t] \in {"copy", "publish"} /\ pos[t] = p}

\* The consumers holding position p between their claim and its release.
Readers(p) == {t \in Consumers : pc[t] \in {"copy", "publish"} /\ pos[t] = p}

\* How many logged operations were made at position p.
Logged(log, p) == Cardinality({i \in DOMAIN log : log[i][1] = p})

\* C21: every position below enqueue_pos (dequeue_pos) has exactly one owner,
\* the producer (consumer) holding it or the one logged operation that held it,
\* and no thread holds a position at or above the cursor; a cursor moves only
\* by one, in the step in which a thread's CAS takes exactly the position the
\* cursor stood at, so positions are claimed in the order 0, 1, 2, ...
C21_OneOwnerPerPosition ==
  /\ [](/\ \A p \in 0..(enqueue_pos - 1) :
              Cardinality(Writers(p)) + Logged(enqLog, p) = 1
        /\ \A p \in 0..(dequeue_pos - 1) :
              Cardinality(Readers(p)) + Logged(deqLog, p) = 1
        /\ \A t \in Threads :
              pc[t] \in {"copy", "publish"} =>
                pos[t] < (IF t \in Producers THEN enqueue_pos ELSE dequeue_pos))
  /\ [][/\ enqueue_pos' # enqueue_pos =>
             /\ enqueue_pos' = enqueue_pos + 1
             /\ \E t \in Producers :
                  pc[t] = "cas" /\ pc'[t] = "copy" /\ pos'[t] = enqueue_pos
        /\ dequeue_pos' # dequeue_pos =>
             /\ dequeue_pos' = dequeue_pos + 1
             /\ \E t \in Consumers :
                  pc[t] = "cas" /\ pc'[t] = "copy" /\ pos'[t] = dequeue_pos
        /\ \A t \in Threads :
             (pc[t] # "copy" /\ pc'[t] = "copy") =>
                IF t \in Producers THEN enqueue_pos' # enqueue_pos
                ELSE dequeue_pos' # dequeue_pos]_vars

\* Both producers hold a position, 1 and 2, after position 0 was delivered.
C21_Witness ==
  /\ Writers(1) # {}
  /\ Writers(2) # {}
  /\ Logged(deqLog, 0) = 1
  /\ enqueue_pos = 3

\* -------------------------------------------------------------- C22
\* Thread t is inside the byte copy of write_slot / read_slot on slot i: from
\* its claim until the copy is done.
Copying(t, i) == pc[t] = "copy" /\ cell_index(pos[t]) = i

\* The value passed by the enqueue logged at position p.
EnqueuedAt(p) == {enqLog[i][2] : i \in {j \in DOMAIN enqLog : enqLog[j][1] = p}}

\* C22: no two threads are inside the byte copy of the same slot at the same
\* time, whether two producers, two consumers, or a producer and a consumer;
\* while a consumer copies, the slot holds exactly the bytes its producer
\* passed, and every dequeue delivers the whole value enqueued at its position.
C22_ExclusiveSlotAccess ==
  /\ \A t, u \in Threads : \A i \in 0..buffer_mask :
       (Copying(t, i) /\ Copying(u, i)) => t = u
  /\ \A c \in Consumers :
       pc[c] = "copy" => EnqueuedAt(pos[c]) = {SlotBytes(pos[c])}
  /\ \A i \in DOMAIN deqLog : EnqueuedAt(deqLog[i][1]) = {deqLog[i][2]}

\* A consumer copies out of slot 1 while a producer of the next generation
\* copies into slot 0.
C22_Witness ==
  /\ \E c \in Consumers : Copying(c, 1) /\ pos[c] = 1
  /\ \E p \in Producers : Copying(p, 0) /\ pos[p] = buffer_mask + 1
  /\ Len(deqLog) = 1

\* -------------------------------------------------------------- C23
\* C23: the step in which a consumer claims pos finds the enqueue of pos
\* finished (its bytes in the slot and sequence = pos + 1); the step in which a
\* producer claims pos >= N finds the dequeue of pos - N finished (sequence =
\* pos, stored by that consumer); and within an operation the publishing store
\* is made only after the copy: the store comes from a thread that has done its
\* copy, and a producer's slot then holds its src.
C23_ClaimAfterPublication ==
  [][/\ \A c \in Consumers :
          (pc[c] = "cas" /\ pc'[c] = "copy") =>
             /\ pos[c] \in Published
             /\ sequence[cell_index(pos[c])] = pos[c] + 1
             /\ EnqueuedAt(pos[c]) = {SlotBytes(pos[c])}
     /\ \A p \in Producers :
          (pc[p] = "cas" /\ pc'[p] = "copy") =>
             /\ sequence[cell_index(pos[p])] = pos[p]
             /\ pos[p] >= buffer_mask + 1 =>
                  /\ (pos[p] - (buffer_mask + 1)) \in Released
                  /\ Writers(pos[p] - (buffer_mask + 1)) = {}
     /\ \A t \in Threads :
          /\ (pc[t] # "publish" /\ pc'[t] = "publish") => pc[t] = "copy"
          /\ (pc[t] = "publish" /\ pc'[t] # "publish") =>
               /\ pc'[t] = "idle"
               /\ t \in Producers => SlotBytes(pos[t]) = src[t]
     /\ sequence' # sequence =>
          \E t \in Threads : pc[t] = "publish" /\ pc'[t] = "idle"
     /\ data' # data =>
          \E t \in Producers : pc[t] = "copy" /\ pc'[t] = "publish"]_vars

\* A consumer has claimed position N, the second element of slot 0.
C23_Witness ==
  /\ \E c \in Consumers : pc[c] = "copy" /\ pos[c] = buffer_mask + 1
  /\ Logged(enqLog, buffer_mask + 1) = 1
  /\ Logged(deqLog, 0) = 1

\* -------------------------------------------------------------- C24
\* C24: the step in which a call returns QueueFull or QueueEmpty is made from
\* the sequence load and changes no shared word or byte; so do the call itself,
\* the cursor load, the sequence load and a failed CAS; a thread is in the
\* reservation loop only before its claim, so a call that returns QueueFull or
\* QueueEmpty has written nothing; and a producer's steps never change
\* dequeue_pos, a consumer's never enqueue_pos or the data.
C24_FailuresChangeNothing ==
  [][\A t \in Threads :
       (pc'[t] # pc[t] \/ ops'[t] # ops[t]) =>
         /\ (result'[t] # result[t] /\ result'[t] \in {QueueFull, QueueEmpty}) =>
               /\ pc[t] = "load_seq"
               /\ shared' = shared
               /\ result'[t] = (IF t \in Producers THEN QueueFull ELSE QueueEmpty)
         /\ pc[t] \in {"idle", "load_pos", "load_seq"} => shared' = shared
         /\ (pc[t] = "cas" /\ pc'[t] = "load_seq") => shared' = shared
         /\ pc'[t] \in {"load_pos", "load_seq", "cas"} =>
               pc[t] \in {"idle", "load_pos", "load_seq", "cas"}
         /\ t \in Producers => dequeue_pos' = dequeue_pos
         /\ t \in Consumers => enqueue_pos' = enqueue_pos /\ data' = data]_vars

\* A producer was turned away by the full ring and, after the ring was
\* drained, a consumer by the empty one.
C24_Witness ==
  /\ AllIdle
  /\ \E p \in Producers : result[p] = QueueFull
  /\ \E c \in Consumers : result[c] = QueueEmpty
  /\ Len(deqLog) = buffer_mask + 1

\* -------------------------------------------------------------- C25
\* C25: the Queue::new(create = true) that succeeds leaves element_size = its
\* argument, buffer_mask = capacity - 1, both cursors 0 and sequence[i] = i for
\* every slot; the attach (init_on_buffer with new = false) changes no byte of
\* the region; and no step of an enqueue or a dequeue changes element_size or
\* buffer_mask.
C25_InitLeavesFreshRing ==
  [][/\ (queues'["creator"] # queues["creator"] /\ queues'["creator"].kind = "Queue") =>
          LET q == queues'["creator"]
          IN  /\ element_size' = q.element_size
              /\ buffer_mask' = q.capacity - 1
              /\ enqueue_pos' = 0
              /\ dequeue_pos' = 0
              /\ DOMAIN sequence' = 0..(q.capacity - 1)
              /\ \A i \in 0..(q.capacity - 1) : sequence'[i] = i
     /\ queues'["joiner"] # queues["joiner"] => shared' = shared
     /\ queues' = queues =>
          /\ element_size' = element_size
          /\ buffer_mask' = buffer_mask]_vars

\* A ring of 4 one-byte slots, joined, with an element through it and slot 0
\* in its second generation: the header fields are as the creator wrote them.
C25_Witness ==
  /\ queues["creator"] = Queue(1, 4)
  /\ queues["joiner"] = Queue(1, 4)
  /\ element_size = 1
  /\ buffer_mask = 3
  /\ sequence[0] = 4
  /\ AllIdle

\* -------------------------------------------------------------- C26
\* The threads inside a reservation loop.
InLoop == {t \in Threads : pc[t] \in {"load_pos", "load_seq", "cas"}}

\* The cursor thread t works on.
Cursor(t) == IF t \in Producers THEN enqueue_pos ELSE dequeue_pos

\* The calls that have returned so far.
ReturnCount == TotalCalls - Cardinality({t \in Threads : pc[t] # "idle"})

\* Whenever a thread is inside a reservation loop, one more call returns.
SomeOperationReturns ==
  \A n \in 0..ProgressCalls : (InLoop # {} /\ ReturnCount = n) ~> (ReturnCount > n)

\* A loop iteration that goes round again was caused by a cursor that has moved
\* since the thread read it, or is a failed CAS, after which the thread holds
\* the cursor's current value.
IterationsHaveACause ==
  [][\A t \in Threads :
       /\ (pc[t] = "load_seq" /\ pc'[t] = "load_pos") => Cursor(t) # pos[t]
       /\ (pc[t] = "cas" /\ pc'[t] = "load_seq") => pos'[t] = Cursor(t)]_vars

Fresh(t) == pc[t] = "load_pos" \/ pos[t] = Cursor(t)

\* Thread t goes round its reservation loop again in this step.
GoesRound(t) ==
  \/ pc[t] = "load_seq" /\ pc'[t] = "load_pos"
  \/ pc[t] = "cas" /\ pc'[t] = "load_seq"

\* The goes-round step is a weak CAS failing although the cursor is unchanged.
Spurious(t) == pc[t] = "cas" /\ pos[t] = Cursor(t)

\* A thread left to run alone that is inside enqueue or dequeue returns.
AloneReturns(t) == (solo = t /\ pc[t] # "idle") ~> (pc[t] = "idle")

\* C27: while thread t runs alone, the suspended threads do not move and t
\* does not wait for them: t goes round its loop again, other than by a
\* spurious CAS failure, only with a stale cursor value, and from then on it
\* holds the current one, so it does so at most once; it returns Ok, QueueFull
\* or QueueEmpty; and, if its weak CAS does not fail spuriously for ever, each
\* of its calls returns, whatever the other threads had claimed when they were
\* suspended.
C27_AloneTerminates ==
  /\ [][\A t \in Threads :
          (solo = t /\ solo' = t) =>
            /\ \A u \in Threads \ {t} : pc'[u] = pc[u] /\ pos'[u] = pos[u]
            /\ (GoesRound(t) /\ ~Spurious(t)) => ~Fresh(t)
            /\ GoesRound(t) => Fresh(t)'
            /\ (Fresh(t) /\ pc'[t] \in {"load_pos", "load_seq", "cas"}) => Fresh(t)'
            /\ (pc[t] # "idle" /\ pc'[t] = "idle") =>
                 result'[t] \in {Ok, QueueFull, QueueEmpty}]_vars
  /\ SF_vars(Scheduled("p1") /\ EnqCasOk("p1")) => AloneReturns("p1")
  /\ SF_vars(Scheduled("p2") /\ EnqCasOk("p2")) => AloneReturns("p2")
  /\ SF_vars(Scheduled("c1") /\ DeqCasOk("c1")) => AloneReturns("c1")
  /\ SF_vars(Scheduled("c2") /\ DeqCasOk("c2")) => AloneReturns("c2")

\* p2 was suspended after claiming position 0 and before its copy; p1, running
\* alone, has enqueued at position 1 and returned Ok.
C27_Witness ==
  /\ solo = "p1"
  /\ pc["p2"] = "copy"
  /\ pos["p2"] = 0
  /\ pc["p1"] = "idle"
  /\ result["p1"] = Ok
  /\ Logged(enqLog, 1) = 1

\* -------------------------------------------------------------- C28
\* The range of isize.
InSigned(x) == x >= -(Word \div 2) /\ x < Word \div 2

\* The arithmetic thread t evaluates next, with `+` and `-` as written in the
\* source, has a result outside its type: `seq as isize - pos as isize`,
\* `pos as isize + 1`, `pos + 1`, `pos + header.buffer_mask + 1`.
Overflows(t) ==
  LET seq == sequence[cell_index(pos[t])]
  IN  \/ /\ pc[t] = "load_seq"
         /\ IF t \in Producers
            THEN ~InSigned(AsSigned(seq) - AsSigned(pos[t]))
            ELSE \/ ~InSigned(AsSigned(pos[t]) + 1)
                 \/ ~InSigned(AsSigned(seq) - (AsSigned(pos[t]) + 1))
      \/ pc[t] = "cas" /\ pos[t] + 1 >= Word
      \/ pc[t] = "publish" /\ t \in Producers /\ pos[t] + 1 >= Word
      \/ pc[t] = "publish" /\ t \in Consumers /\ pos[t] + buffer_mask + 1 >= Word

\* With wrapping arithmetic the order and the count of the elements are kept
\* across the boundary.
WrapKeepsOrder ==
  /\ Len(deqLog) <= Len(enqLog)
  /\ \A i \in DOMAIN deqLog : DeqVals[i] = EnqVals[i]
  /\ Len(enqLog) - Len(deqLog) <= buffer_mask + 1
  /\ AllIdle => (enqueue_pos - dequeue_pos) % Word = Len(enqLog) - Len(deqLog)

\* C28: while the cursors and sequences pass the signed maximum and the end of
\* the word, no thread is about to evaluate an addition or subtraction that
\* overflows its type, and order and count of the elements are kept.
C28_WrapIsTransparent ==
  /\ \A t \in Threads : ~Overflows(t)
  /\ WrapKeepsOrder

\* -------------------------------------------------------------- C29
\* C29: for the ring a successful Queue::new(create = true) has made, of any
\* element size and power-of-two capacity N >= 2: compute_required_size is
\* sizeof(Header) + N * sizeof(Cell) + N * element_size, the length of the
\* segment, and the required_size validate_and_compute_layout computes; the
\* cells start at or after the header's end, the data region starts at the byte
\* after Cells[N - 1], and the last byte of slot N - 1 is at required_size - 1.
C29_LayoutConsistent ==
  queues["creator"].kind = "Queue" =>
    LET es == element_size
        N == buffer_mask + 1
        required == compute_required_size(es, N)
    IN  /\ required = HeaderSize + N * UsizeBytes + N * es
        /\ required = layout(es, N).required_size
        /\ required = segment.len
        /\ cells_offset >= HeaderSize
        /\ cells_offset = layout(es, N).cells_offset
        /\ data_offset = cells_offset + N * UsizeBytes
        /\ data_offset = layout(es, N).data_offset
        /\ slot_offset(N - 1) + es - 1 = required - 1

\* The sizes of a ring whose byte counts all fit the size word.
SizesFit(es, N) == HeaderSize + N * UsizeBytes + N * es < SizeWord

LayoutConsistentWhenSizesFit ==
  SizesFit(element_size, buffer_mask + 1) => C29_LayoutConsistent

\* -------------------------------------------------------------- C30
\* The creator has stored every field of the header and every sequence[i] = i.
Initialised == construction.step = "done" \/ (construction.step = "cells" /\ construction.i = construction.cap)

\* A store of the creator's initialisation changes a word of the ring: the word
\* held something other than the zero of the fresh segment or the initial value.
OverwritesAdvancedWord ==
  \/ ConstructHeader /\ (enqueue_pos' # enqueue_pos \/ dequeue_pos' # dequeue_pos)
  \/ ConstructCell /\ sequence[construction.i] \notin {0, construction.i}

\* C30: a joiner whose attach has succeeded sees a completely initialised ring
\* (the creator has written the header and every sequence[i] = i), and no store
\* of the creator's initialisation overwrites a cursor or a slot sequence that
\* the joiner has advanced.
C30_JoinerSeesInitialisedRing ==
  /\ [](queues["joiner"].kind = "Queue" => Initialised)
  /\ [][~OverwritesAdvancedWord]_vars

\* The first half alone, and the second half alone.
AttachOnlyAfterInit == queues["joiner"].kind = "Queue" => Initialised
InitNeverOverwrites == [][~OverwritesAdvancedWord]_vars

\* An element the joiner has enqueued that nobody dequeued and no later dequeue
\* finds: all is quiet, the enqueue returned Ok, yet the slot at dequeue_pos is
\* not published.
JoinerElementLost ==
  /\ Initialised
  /\ \A t \in Threads : pc[t] = "idle"
  /\ Len(enqLog) > Len(deqLog)
  /\ dequeue_dif(sequence[cell_index(dequeue_pos)], dequeue_pos) < 0
NoJoinerElementLost == ~JoinerElementLost

\* -------------------------------------------------------------- C33
\* C33: __len__ loads dequeue_pos first and enqueue_pos second, so (cursors not
\* wrapping) the enqueue value it loaded is never smaller than the dequeue
\* value it loaded, whatever puts and gets ran in between: the saturating
\* subtraction returns the plain difference, and a returned 0 means the ring
\* was empty at the instant of the first load.
C33_LenNeverSaturates ==
  len_query.pc = "idle" =>
    /\ len_query.tail >= len_query.head
    /\ len_query.len = len_query.tail - len_query.head
    /\ len_query.len = 0 => len_query.was_empty

\* A query that returned 0 on a ring whose cursors have moved, and one whose
\* loads had a put between them.
C33_Witness ==
  /\ len_query.pc = "idle"
  /\ len_query.len = 0
  /\ len_query.head > 0
  /\ enqueue_pos > len_query.tail

\* -------------------------------------------------------------- C34
\* C34: for every power-of-two capacity >= 2, every element_size >= 1 and every
\* header-aligned base for which Queue::new of lib.rs succeeds, the address of
\* the sequence array is a multiple of seq_align and not below the end of the
\* data bytes, and the end of the sequence array is within total_size bytes of
\* the base.
C34_SequencesClearOfData ==
  (/\ lib_new.kind = "Queue"
   /\ lib_new.element_size >= 1
   /\ lib_new.base % LibHeaderAlign = 0) =>
    /\ lib_new.sequences % SeqAlign = 0
    /\ lib_new.sequences >= lib_new.buffer_end
    /\ lib_new.buffer_end = lib_new.buffer + lib_new.capacity * lib_new.element_size
    /\ lib_new.sequences + lib_new.capacity * UsizeBytes <= lib_new.base + lib_new.total_size

\* A ring whose data bytes end off the alignment of the sequences.
C34_Witness ==
  /\ lib_new.kind = "Queue"
  /\ lib_new.element_size >= 1
  /\ lib_new.base % LibHeaderAlign = 0
  /\ lib_new.buffer_end % SeqAlign # 0
  /\ lib_new.sequences > lib_new.buffer_end

\* The same for a base that is not header-aligned.
SequencesClearOfDataAnyBase ==
  (lib_new.kind = "Queue" /\ lib_new.element_size >= 1) =>
    /\ lib_new.sequences % SeqAlign = 0
    /\ lib_new.sequences >= lib_new.buffer_end
    /\ lib_new.sequences + lib_new.capacity * UsizeBytes <= lib_new.base + lib_new.total_size

\* -------------------------------------------------------------- C31
\* Thread t waits for the interpreter lock: at with_gil without holding it, or
\* at the end of the inner allow_threads.
WaitsForGil(t) ==
  \/ At(t, "with_gil") /\ gil # t
  \/ At(t, "ring") /\ result[t] # NoResult

\* Thread t waits for the named lock.
WaitsForNamedLock(t) == At(t, "with_lock")

\* C31: threads of one process calling put / get and put_nowait / get_nowait
\* of lib.rs never deadlock: in no reachable state does one thread hold the
\* named lock and wait for the interpreter lock while another holds the
\* interpreter lock and waits for the named lock.
C31_NoLockOrderDeadlock ==
  ~ \E a \in Threads : \E b \in Threads \ {a} :
      /\ named_lock = a /\ WaitsForGil(a)
      /\ gil = b /\ WaitsForNamedLock(b)

\* -------------------------------------------------------------- C32
\* The outcome of try_put / try_get and the result of enqueue / dequeue that
\* mean the same.
SameOutcome(outcome, r) ==
  \/ outcome \in {"Ok(true)", "Ok(Some)"} /\ r = Ok
  \/ outcome = "Ok(false)" /\ r = QueueFull
  \/ outcome = "Ok(None)" /\ r = QueueEmpty
  \/ outcome = "ValueError" /\ r.kind = "InvalidSourceLength"

\* C32: after each of a sequence of calls made one at a time on two fresh
\* queues of the same element_size and capacity, try_put / try_get of lib.rs
\* and enqueue / dequeue of the core have returned the same outcome (success,
\* full, empty, length error) and the same dequeued bytes, and the two rings
\* have the same enqueue and dequeue cursor and the same slot sequences.
C32_SameOutcomesAndCursors ==
  AllIdle =>
    /\ enqueue_pos = twin.enqueue_position
    /\ dequeue_pos = twin.dequeue_position
    /\ sequence = twin.sequences
    /\ twin.op = "put" => SameOutcome(twin.outcome, result["p1"])
    /\ twin.op = "get" => /\ SameOutcome(twin.outcome, result["c1"])
                          /\ twin.outcome = "Ok(Some)" => dst["c1"] = twin.bytes

\* Both rings have gone round once and the last call was a successful get.
C32_Witness ==
  /\ AllIdle
  /\ twin.op = "get" /\ twin.outcome = "Ok(Some)"
  /\ dequeue_pos > Capacity
  /\ dst["c1"] = twin.bytes

\* The other outcomes occur as well.
TwinFull == AllIdle /\ twin.outcome = "Ok(false)" /\ result["p1"] = QueueFull
TwinEmpty == AllIdle /\ twin.outcome = "Ok(None)" /\ result["c1"] = QueueEmpty
TwinLengthError == AllIdle /\ twin.outcome = "ValueError"

====
